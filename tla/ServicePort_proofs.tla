------------------------- MODULE ServicePort_proofs -------------------------
(***************************************************************************)
(* Proofs about ServicePort, for any framing, any peer and messages of any   *)
(* size.                                                                    *)
(***************************************************************************)
EXTENDS ServicePort, SequenceTheorems, TLAPS

(* Who has the descriptor follows from where the task is, and so does whether  *)
(* the handler was called.  SocketIsClosed is not inductive without the first: *)
(* it says nothing of the number that the blocking thread is to wrap.          *)
Holder ==
    /\ fd = "stream" <=> at \in {"accepted", "peeking", "asleep", "framing", "handing"}
    /\ fd = "raw"    <=> at = "queued"
    /\ fd = "socket" <=> at \in {"calling", "awaiting"}

Called ==
    /\ at \in {"accepted", "peeking", "asleep", "framing", "handing", "queued"} => runs = 0
    /\ runs \in {0, 1}

SocketInv == Holder /\ Called /\ SocketIsClosed

LEMMA PeerKeeps == Peer => UNCHANGED <<at, socket, dropped>>
BY DEF Peer, Send, Shut, SendFramed, SendBracket, SendClosing, SendQuote, SendCharacter,
       SendToken, Emit

LEMMA ProbeStep == SocketInv /\ Probe => SocketInv'
<1> SUFFICES ASSUME SocketInv, Probe PROVE SocketInv'
    OBVIOUS
<1> USE DEF SocketInv, Holder, Called, SocketIsClosed, Ended, socket
<1>1. CASE Accepted
    BY <1>1 DEF Accepted
<1>2. CASE Peek
  <2>1. /\ at = "peeking" /\ UNCHANGED <<socket, dropped>>
        /\ at' \in {"framing", "handing", "asleep"}
    BY <1>2 DEF Peek
  <2>. QED
    BY <2>1
<1>3. CASE Wake
    BY <1>3 DEF Wake
<1>. QED
    BY <1>1, <1>2, <1>3 DEF Probe

(* The descriptor is on its way from one hand to the next.                     *)
LEMMA HttpStep == SocketInv /\ Http => SocketInv'
<1> SUFFICES ASSUME SocketInv, Http PROVE SocketInv'
    OBVIOUS
<1> USE DEF SocketInv, Holder, Called, SocketIsClosed, Ended, socket
<1>1. CASE HandOver
    BY <1>1 DEF HandOver
<1>2. CASE invoke_python_http_handler
    BY <1>2 DEF invoke_python_http_handler
<1>3. CASE HandlerReturns
    BY <1>3 DEF HandlerReturns
<1>4. CASE CoroutineEnds
    BY <1>4 DEF CoroutineEnds
<1>. QED
    BY <1>1, <1>2, <1>3, <1>4 DEF Http

(* A framer reads on, or ends the connection and closes it.                    *)
LEMMA FramerEnds ==
    Framer => /\ at = "framing" /\ UNCHANGED <<runs, dropped>>
              /\ \/ UNCHANGED <<at, fd>>
                 \/ at' \in {"done", "failed"} /\ fd' = "closed"
<1> USE DEF Framing, Reading, Goes, Ends
<1>1. CASE ReadLength
  <2> DEFINE n == I32(SubSeq(wire, pos + 1, pos + 4))
  <2>1. CASE n > 0
    BY <1>1, <2>1 DEF ReadLength
  <2>2. CASE ~(n > 0)
    BY <1>1, <2>2 DEF ReadLength
  <2>. QED
    BY <2>1, <2>2
<1>2. CASE ReadPayload
    BY <1>2 DEF ReadPayload
<1>3. CASE ReadEof
    BY <1>3 DEF ReadEof
<1>4. CASE JsonStart
    BY <1>4 DEF JsonStart
<1>5. CASE JsonByte
    BY <1>5 DEF JsonByte
<1>. QED
    BY <1>1, <1>2, <1>3, <1>4, <1>5 DEF Framer

LEMMA FramerStep == SocketInv /\ Framer => SocketInv'
BY FramerEnds DEF SocketInv, Holder, Called, SocketIsClosed, Ended

LEMMA DropStep == SocketInv /\ RuntimeDropped => SocketInv'
<1> SUFFICES ASSUME SocketInv, RuntimeDropped PROVE SocketInv'
    OBVIOUS
<1> USE DEF SocketInv, Holder, Called, SocketIsClosed, Ended
<1>1. CASE at \in Ended \cup {"calling"}
    BY <1>1 DEF RuntimeDropped
<1>2. CASE at \notin Ended \cup {"calling"}
  <2>1. CASE fd = "raw"
    BY <1>2, <2>1 DEF RuntimeDropped
  <2>2. CASE fd # "raw"
    BY <1>2, <2>2 DEF RuntimeDropped
  <2>. QED
    BY <2>1, <2>2
<1>. QED
    BY <1>1, <1>2

LEMMA SocketHolds == Spec => []SocketInv
<1>1. Init => SocketInv
    BY DEF Init, SocketInv, Holder, Called, SocketIsClosed, Ended
<1>2. SocketInv /\ [Next]_vars => SocketInv'
  <2> SUFFICES ASSUME SocketInv, [Next]_vars PROVE SocketInv'
    OBVIOUS
  <2>1. CASE Peer
    BY <2>1, PeerKeeps DEF SocketInv, Holder, Called, SocketIsClosed, Ended, socket
  <2>2. CASE UNCHANGED vars
    BY <2>2 DEF vars, SocketInv, Holder, Called, SocketIsClosed, Ended, socket
  <2>. QED
    BY <2>1, <2>2, ProbeStep, HttpStep, FramerStep, DropStep DEF Next
<1>. QED
    BY <1>1, <1>2, PTL DEF Spec

(* Whatever the peer sends and whatever fails on the way, the descriptor of a  *)
(* connection is closed once and when it is over, and the HTTP handler is      *)
(* called at most once; only a runtime that goes down with the descriptor on    *)
(* its way to the blocking thread loses it.                                   *)
THEOREM SocketIsClosedOnce == Spec => []SocketIsClosed
<1>. QED
    BY SocketHolds, PTL DEF SocketInv

-----------------------------------------------------------------------------
(* Types.  A JSON text under way has an open bracket, and its bytes lie behind  *)
(* the framer.                                                              *)
CutState ==
    [started : BOOLEAN, depth : Nat, inString : BOOLEAN, escaped : BOOLEAN, size : Nat]

Underway(c, p) == c.started => c.depth >= 1 /\ c.size <= p

TypeInv ==
    /\ TypeOK /\ Underway(cut, pos)
    /\ cut.started => setup.framing = "json"

LEMMA Bounds ==
    /\ MaxFrame \in 0 .. 255 /\ Alphabet \subseteq Byte /\ Requests \subseteq Seq(Byte)
    /\ \A s \in Setups : s.framing \in {"framed", "json"}
                       /\ s.http \in {"none", "sync", "async"} /\ s.speaks \in {"thrift", "text"}
BY PortAssumption DEF PortAssumption

LEMMA PieceOf ==
    ASSUME NEW S, NEW s \in Seq(S), NEW m \in 1 .. Len(s) + 1, NEW n \in 0 .. Len(s)
    PROVE  /\ SubSeq(s, m, n) \in Seq(S)
           /\ Len(SubSeq(s, m, n)) = IF m <= n THEN n - m + 1 ELSE 0
           /\ \A i \in 1 .. n - m + 1 : SubSeq(s, m, n)[i] = s[m + i - 1]
<1>1. Len(s) \in Nat /\ m \in Int /\ n \in Int
    OBVIOUS
<1>2. \A i \in m .. n : s[i] \in S
    OBVIOUS
<1>. QED  BY <1>1, <1>2, SubSeqProperties

(* The framer's variables, one at a time.                                     *)
LEMMA CutFields ==
    ASSUME NEW c \in CutState, NEW n \in Nat, NEW b \in BOOLEAN
    PROVE  /\ [c EXCEPT !.started = b] \in CutState
           /\ [c EXCEPT !.depth = n] \in CutState
           /\ [c EXCEPT !.inString = b] \in CutState
           /\ [c EXCEPT !.escaped = b] \in CutState
           /\ [c EXCEPT !.size = n] \in CutState
BY Zenon DEF CutState

LEMMA NoFrameType == NoFrame \in CutState
BY DEF NoFrame, CutState

(* One byte of a JSON text.                                                  *)
LEMMA ByteTypes ==
    ASSUME NEW c \in CutState, c.depth >= 1, NEW byte
    PROVE  /\ InString(c, byte) \in CutState
           /\ OutOfString(c, byte) \in CutState
           /\ InString(c, byte).started = c.started /\ InString(c, byte).size = c.size
           /\ InString(c, byte).depth = c.depth
           /\ OutOfString(c, byte).started = c.started /\ OutOfString(c, byte).size = c.size
<1>1. c.depth + 1 \in Nat /\ c.depth - 1 \in Nat
    BY DEF CutState
<1>2. InString(c, byte) \in CutState /\ OutOfString(c, byte) \in CutState
    BY <1>1, CutFields, Zenon DEF InString, OutOfString
<1>. QED
    BY <1>2 DEF InString, OutOfString, CutState

LEMMA ClosingIs == \A b \in Opening : Closing[b] = b + 2 /\ Closing[b] \in Byte
BY DEF Closing, Opening, Byte

LEMMA PeerTypes == TypeInv /\ Peer => TypeInv'
<1> SUFFICES ASSUME TypeInv, Peer PROVE TypeInv'
    OBVIOUS
<1>1. UNCHANGED <<setup, at, framer, socket, dropped>>
    BY DEF Peer, Send, Shut, SendFramed, SendBracket, SendClosing, SendQuote,
           SendCharacter, SendToken, Emit
<1>t. /\ wire \in Seq(Byte) /\ unsent \in Seq(Byte) /\ shut \in BOOLEAN
      /\ open \in Seq(Opening \cup {Quote}) /\ msgs \in Seq(Nat \X Nat)
    BY DEF TypeInv, TypeOK
<1>2. Sent \in Nat /\ Len(wire) \in Nat /\ Len(unsent) \in Nat
    BY <1>t DEF Sent
<1>3. /\ wire' \in Seq(Byte) /\ unsent' \in Seq(Byte) /\ shut' \in BOOLEAN
      /\ open' \in Seq(Opening \cup {Quote}) /\ msgs' \in Seq(Nat \X Nat)
      /\ Len(wire') >= Len(wire)
  <2>1. CASE Send
    <3>1. PICK n \in 1 .. Len(unsent) : /\ wire' = wire \o SubSeq(unsent, 1, n)
                                        /\ unsent' = SubSeq(unsent, n + 1, Len(unsent))
        BY <2>1 DEF Send
    <3>2. SubSeq(unsent, 1, n) \in Seq(Byte)
      <4>1. 1 \in 1 .. Len(unsent) + 1 /\ n \in 0 .. Len(unsent)
          BY <1>2
      <4>. QED  BY <1>t, <4>1, PieceOf
    <3>3. SubSeq(unsent, n + 1, Len(unsent)) \in Seq(Byte)
      <4>1. n + 1 \in 1 .. Len(unsent) + 1 /\ Len(unsent) \in 0 .. Len(unsent)
          BY <1>2
      <4>. QED  BY <1>t, <4>1, PieceOf
    <3>. QED  BY <1>t, <1>2, <2>1, <3>1, <3>2, <3>3 DEF Send
  <2>2. CASE Shut
    BY <1>t, <1>2, <2>2 DEF Shut
  <2>3. CASE SendFramed
    <3>1. PICK n \in 0 .. MaxFrame :
            LET message == <<0, 0, 0, n>> \o [i \in 1 .. n |-> 0] IN
            /\ unsent' = message
            /\ msgs' = Append(msgs, <<Sent + 5, Sent + Len(message)>>)
        BY <2>3 DEF SendFramed
    <3>2. n \in Byte /\ 0 \in Byte
        BY Bounds DEF Byte
    <3>3. [i \in 1 .. n |-> 0] \in Seq(Byte) /\ <<0, 0, 0, n>> \in Seq(Byte)
        BY <3>2
    <3>4. unsent' \in Seq(Byte)
        BY <3>1, <3>3
    <3>5. Len(unsent') \in Nat
        BY <3>4
    <3>6. <<Sent + 5, Sent + Len(unsent')>> \in Nat \X Nat
        BY <1>t, <1>2, <3>5
    <3>. QED  BY <1>t, <1>2, <2>3, <3>1, <3>4, <3>6 DEF SendFramed
  <2>4. CASE SendBracket \/ SendClosing \/ SendQuote \/ SendCharacter \/ SendToken
    <3>1. UNCHANGED <<wire, shut>>
        BY <2>4 DEF SendBracket, SendClosing, SendQuote, SendCharacter, SendToken, Emit
    <3>2. CASE SendBracket
      <4>1. PICK b \in Opening :
              /\ unsent' = <<b>> /\ open' = <<b>> \o open
              /\ msgs' = IF open = << >> THEN Append(msgs, <<Sent + 1, 0>>) ELSE msgs
          BY <3>2 DEF SendBracket, Emit
      <4>2. b \in Byte
          BY DEF Byte, Opening
      <4>3. <<Sent + 1, 0>> \in Nat \X Nat
          BY <1>2
      <4>. QED  BY <1>t, <1>2, <3>1, <4>1, <4>2, <4>3
    <3>3. CASE SendClosing
      <4>1. Head(open) \in Opening /\ Tail(open) \in Seq(Opening \cup {Quote})
          BY <1>t, <3>3 DEF SendClosing, Quoting
      <4>2. Closing[Head(open)] \in Byte
          BY <4>1, ClosingIs
      <4>3. msgs' \in Seq(Nat \X Nat)
        <5>1. CASE msgs = << >> \/ Len(open) # 1
            BY <1>t, <3>3, <5>1 DEF SendClosing
        <5>2. CASE msgs # << >> /\ Len(open) = 1
          <6>1. Len(msgs) \in 1 .. Len(msgs) /\ msgs[Len(msgs)] \in Nat \X Nat
              BY <1>t, <5>2
          <6>2. <<msgs[Len(msgs)][1], Sent + 1>> \in Nat \X Nat
              BY <1>t, <1>2, <6>1
          <6>. QED  BY <1>t, <3>3, <5>2, <6>1, <6>2, ExceptSeq DEF SendClosing
        <5>. QED  BY <5>1, <5>2
      <4>. QED  BY <1>t, <1>2, <3>1, <3>3, <4>1, <4>2, <4>3 DEF SendClosing, Emit
    <3>4. CASE SendQuote
      <4>1. Quote \in Byte
          BY DEF Quote, Byte
      <4>2. /\ <<Quote>> \in Seq(Byte) /\ <<Quote>> \in Seq(Opening \cup {Quote})
            /\ open # << >> => Tail(open) \in Seq(Opening \cup {Quote})
          BY <1>t, <4>1
      <4>3. open' \in Seq(Opening \cup {Quote})
        <5>1. <<Quote>> \o open \in Seq(Opening \cup {Quote})
            BY <1>t, <4>2, ConcatProperties
        <5>2. open # << >> /\ open' = IF Quoting THEN Tail(open) ELSE <<Quote>> \o open
            BY <3>4 DEF SendQuote
        <5>. QED  BY <4>2, <5>1, <5>2
      <4>4. unsent' = <<Quote>> /\ UNCHANGED msgs
          BY <3>4 DEF SendQuote, Emit
      <4>. QED  BY <1>t, <1>2, <3>1, <4>2, <4>3, <4>4
    <3>5. CASE SendCharacter
      <4>1. \A char \in Alphabet : char \in Byte /\ Backslash \in Byte
          BY Bounds DEF Backslash, Byte
      <4>. QED  BY <1>t, <1>2, <3>1, <3>5, <4>1 DEF SendCharacter, Emit
    <3>6. CASE SendToken
      <4>1. 32 \in Byte
          BY DEF Byte
      <4>. QED  BY <1>t, <1>2, <3>1, <3>6, <4>1 DEF SendToken, Emit
    <3>. QED  BY <2>4, <3>2, <3>3, <3>4, <3>5, <3>6
  <2>. QED
    BY <2>1, <2>2, <2>3, <2>4 DEF Peer
<1>4. pos \in 0 .. Len(wire')
    BY <1>t, <1>2, <1>3 DEF TypeInv, TypeOK
<1>. QED
    BY <1>1, <1>3, <1>4 DEF TypeInv, TypeOK, Underway, framer, socket, Ended


LEMMA ItemOf ==
    ASSUME NEW S, NEW s \in Seq(S), NEW i \in 1 .. Len(s)
    PROVE  s[i] \in S
OBVIOUS

LEMMA I32Sum ==
    ASSUME NEW b, b[1] \in Int, b[2] \in Int, b[3] \in Int, b[4] \in Int
    PROVE  I32(b) \in Int
BY SMT DEF I32

LEMMA I32Int ==
    ASSUME NEW b \in Seq(Byte), Len(b) = 4
    PROVE  I32(b) \in Int
<1>1. \A i \in 1 .. 4 : b[i] \in Byte
    BY ItemOf, Zenon
<1>2. \A x \in Byte : x \in Int
    BY DEF Byte
<1>3. 1 \in 1 .. 4 /\ 2 \in 1 .. 4 /\ 3 \in 1 .. 4 /\ 4 \in 1 .. 4
    OBVIOUS
<1>4. b[1] \in Int /\ b[2] \in Int /\ b[3] \in Int /\ b[4] \in Int
    BY <1>1, <1>2, <1>3, Zenon
<1>. QED
    BY <1>4, I32Sum, Zenon

LEMMA SizeSet ==
    ASSUME NEW c \in CutState, NEW n
    PROVE  /\ [c EXCEPT !.size = n].started = c.started /\ [c EXCEPT !.size = n].depth = c.depth
           /\ [c EXCEPT !.size = n].inString = c.inString
           /\ [c EXCEPT !.size = n].escaped = c.escaped /\ [c EXCEPT !.size = n].size = n
BY DEF CutState

(* The bytes that a framer takes have arrived.                                *)
LEMMA FramerTypes == TypeInv /\ Framer => TypeInv'
<1> SUFFICES ASSUME TypeInv, Framer PROVE TypeInv'
    OBVIOUS
<1>t. /\ pos \in Nat /\ pos <= Len(wire) /\ Len(wire) \in Nat /\ wire \in Seq(Byte)
      /\ cut \in CutState /\ Underway(cut, pos) /\ frames \in Seq(Nat \X Nat)
    BY DEF TypeInv, TypeOK, CutState
<1>1. UNCHANGED <<setup, peer, runs, dropped>>
    BY DEF Framer, ReadLength, ReadPayload, ReadEof, JsonStart, JsonByte, Reading
<1>2. at' \in {"accepted", "peeking", "asleep", "framing", "handing", "queued",
               "calling", "awaiting"} \cup Ended
      /\ fd' \in {"stream", "raw", "socket", "closed", "lost"}
    BY FramerEnds DEF Ended, TypeInv, TypeOK
<1>3. /\ pos' \in 0 .. Len(wire)
      /\ cut' \in CutState /\ Underway(cut', pos') /\ frames' \in Seq(Nat \X Nat)
      /\ cut'.started => setup.framing = "json"
  <2>1. CASE ReadLength
    <3> DEFINE n == I32(SubSeq(wire, pos + 1, pos + 4))
    <3>1. pos' = pos + 4 /\ Len(wire) - pos >= 4 /\ setup.framing = "framed"
        BY <2>1 DEF ReadLength, Arrived, Framing
    <3>2. n \in Int
      <4>1. pos + 1 \in 1 .. Len(wire) + 1 /\ pos + 4 \in 0 .. Len(wire)
          BY <1>t, <3>1
      <4>2. SubSeq(wire, pos + 1, pos + 4) \in Seq(Byte)
            /\ Len(SubSeq(wire, pos + 1, pos + 4)) = pos + 4 - (pos + 1) + 1
          BY <1>t, <4>1, PieceOf
      <4>3. Len(SubSeq(wire, pos + 1, pos + 4)) = 4
          BY <1>t, <4>1, <4>2
      <4>. QED  BY <4>2, <4>3, I32Int, Zenon
    <3>3. ~cut.started /\ cut.started \in BOOLEAN
        BY <1>t, <3>1 DEF TypeInv, CutState
    <3> HIDE DEF n
    <3>4. CASE n > 0
      <4>1. cut' = [cut EXCEPT !.size = n] /\ UNCHANGED frames
          BY <2>1, <3>4 DEF ReadLength, n
      <4>2. n \in Nat
          BY <3>2, <3>4
      <4>3. cut' \in CutState /\ cut'.started = cut.started
          BY <1>t, <4>1, <4>2, CutFields, SizeSet
      <4>. QED  BY <1>t, <3>1, <3>3, <4>1, <4>3 DEF Underway
    <3>5. CASE ~(n > 0)
      <4>1. UNCHANGED <<cut, frames>>
          BY <2>1, <3>5 DEF ReadLength, n
      <4>. QED  BY <1>t, <3>1, <3>3, <4>1 DEF Underway
    <3>. QED  BY <3>4, <3>5
  <2>2. CASE ReadPayload
    <3>1. /\ pos' = pos + cut.size /\ Len(wire) - pos >= cut.size /\ cut.size \in Nat
          /\ cut' = NoFrame /\ frames' = Append(frames, <<pos + 1, pos + cut.size>>)
        BY <1>t, <2>2 DEF ReadPayload, Arrived, Cut, CutState
    <3>2. <<pos + 1, pos + cut.size>> \in Nat \X Nat /\ pos + cut.size \in 0 .. Len(wire)
        BY <1>t, <3>1
    <3>3. frames' \in Seq(Nat \X Nat)
        BY <1>t, <3>1, <3>2
    <3>. QED  BY <1>t, <3>1, <3>2, <3>3, NoFrameType DEF Underway, NoFrame
  <2>3. CASE ReadEof
    BY <1>t, <2>3 DEF ReadEof, framer, TypeInv
  <2>4. CASE JsonStart
    <3>1. /\ pos' = pos + 1 /\ Len(wire) - pos >= 1 /\ UNCHANGED frames
          /\ setup.framing = "json" /\ ~cut.started
        BY <2>4 DEF JsonStart, Arrived, Framing
    <3>2. UNCHANGED cut \/ cut' = [cut EXCEPT !.started = TRUE, !.depth = 1, !.size = 1]
        BY <2>4 DEF JsonStart
    <3>3. cut' \in CutState /\ Underway(cut', pos')
      <4>1. CASE UNCHANGED cut
          BY <1>t, <3>1, <4>1 DEF Underway
      <4>2. CASE cut' = [cut EXCEPT !.started = TRUE, !.depth = 1, !.size = 1]
        <5>1. cut'.depth = 1 /\ cut'.size = 1 /\ cut' \in CutState
            BY <1>t, <4>2 DEF CutState
        <5>. QED  BY <1>t, <3>1, <5>1 DEF Underway
      <4>. QED  BY <3>2, <4>1, <4>2
    <3>. QED  BY <1>t, <3>1, <3>3
  <2>5. CASE JsonByte
    <3> DEFINE byte == wire[pos + 1]
               next == IF cut.inString THEN InString(cut, byte) ELSE OutOfString(cut, byte)
    <3>1. /\ pos' = pos + 1 /\ Len(wire) - pos >= 1
          /\ setup.framing = "json" /\ cut.started
        BY <2>5 DEF JsonByte, Arrived, Framing
    <3>0. cut.depth >= 1 /\ cut.size \in Nat /\ cut.size <= pos
        BY <1>t, <3>1 DEF Underway, CutState
    <3>2. next \in CutState /\ next.size = cut.size /\ cut.size \in Nat /\ cut.size <= pos
        BY <1>t, <3>0, ByteTypes
    <3>3. CASE next.depth = 0
      <4>1. cut' = NoFrame /\ frames' = Append(frames, <<pos + 1 - cut.size, pos + 1>>)
          BY <2>5, <3>3 DEF JsonByte, Cut
      <4>2. <<pos + 1 - cut.size, pos + 1>> \in Nat \X Nat
          BY <1>t, <3>2
      <4>. QED  BY <1>t, <3>1, <4>1, <4>2, NoFrameType DEF Underway, NoFrame
    <3>4. CASE next.depth # 0
      <4> HIDE DEF next
      <4>1. cut' = [next EXCEPT !.size = next.size + 1] /\ UNCHANGED frames
          BY <2>5, <3>4 DEF JsonByte, next
      <4>2. next.depth >= 1 /\ next.size + 1 \in Nat /\ next.size + 1 <= pos + 1
          BY <1>t, <3>2, <3>4 DEF CutState
      <4>3. cut' \in CutState /\ cut'.depth = next.depth /\ cut'.size = next.size + 1
          BY <3>2, <4>1, <4>2, CutFields DEF CutState
      <4>. QED  BY <1>t, <3>1, <4>1, <4>2, <4>3 DEF Underway
    <3>. QED  BY <3>3, <3>4
  <2>. QED
    BY <2>1, <2>2, <2>3, <2>4, <2>5 DEF Framer
<1>. QED
    BY <1>1, <1>2, <1>3 DEF TypeInv, TypeOK, peer, CutState

LEMMA TaskTypes == TypeInv /\ (Probe \/ Http \/ RuntimeDropped) => TypeInv'
<1> SUFFICES ASSUME TypeInv, Probe \/ Http \/ RuntimeDropped PROVE TypeInv'
    OBVIOUS
<1>1. UNCHANGED <<setup, peer, framer>>
    BY DEF Probe, Accepted, Peek, Wake, Http, HandOver, invoke_python_http_handler,
           HandlerReturns, CoroutineEnds, RuntimeDropped
<1>2. /\ at' \in {"accepted", "peeking", "asleep", "framing", "handing", "queued",
                  "calling", "awaiting"} \cup Ended
      /\ fd' \in {"stream", "raw", "socket", "closed", "lost"}
      /\ runs' \in Nat /\ dropped' \in BOOLEAN
    <2>t. /\ at \in {"accepted", "peeking", "asleep", "framing", "handing", "queued",
                     "calling", "awaiting"} \cup Ended
          /\ fd \in {"stream", "raw", "socket", "closed", "lost"}
          /\ runs \in Nat /\ dropped \in BOOLEAN
        BY DEF TypeInv, TypeOK
    <2>1. CASE Probe
      <3>1. at' \in {"peeking", "asleep", "framing", "handing"} /\ UNCHANGED <<socket, dropped>>
          BY <2>1 DEF Probe, Accepted, Peek, Wake
      <3>. QED  BY <2>t, <3>1 DEF socket
    <2>2. CASE Http
        BY <2>t, <2>2 DEF Http, HandOver, invoke_python_http_handler, HandlerReturns,
                          CoroutineEnds, Ended
    <2>3. CASE RuntimeDropped
        BY <2>t, <2>3 DEF RuntimeDropped, Ended
    <2>. QED  BY <2>1, <2>2, <2>3
<1>. QED
    BY <1>1, <1>2 DEF TypeInv, TypeOK, peer, framer, Underway

LEMMA TypeStep == TypeInv /\ [Next]_vars => TypeInv'
<1>1. TypeInv /\ UNCHANGED vars => TypeInv'
    BY DEF vars, peer, framer, socket, TypeInv, TypeOK, Underway
<1>. QED
    BY <1>1, PeerTypes, FramerTypes, TaskTypes DEF Next

LEMMA TypeInit == Init => TypeInv
<1> SUFFICES ASSUME Init PROVE TypeInv
    OBVIOUS
<1>1. unsent \in Seq(Byte)
  <2>1. CASE setup.speaks = "text"
      BY <2>1, Bounds DEF Init
  <2>2. CASE setup.speaks # "text"
    <3>1. unsent = << >>
        BY <2>2 DEF Init
    <3>. QED  BY <3>1
  <2>. QED  BY <2>1, <2>2
<1>2. cut \in CutState /\ ~cut.started
    BY NoFrameType DEF Init, NoFrame
<1>3. setup \in Setups /\ wire = << >> /\ open = << >> /\ msgs = << >> /\ frames = << >>
      /\ at = "accepted" /\ fd = "stream" /\ pos = 0 /\ runs = 0
      /\ shut \in BOOLEAN /\ dropped \in BOOLEAN
    BY DEF Init
<1>4. pos \in 0 .. Len(wire) /\ wire \in Seq(Byte)
    BY <1>3
<1>. QED
    BY <1>1, <1>2, <1>3, <1>4 DEF TypeInv, TypeOK, CutState, Underway

LEMMA TypesHold == Spec => []TypeInv
<1>. QED
    BY TypeInit, TypeStep, PTL DEF Spec

(* Every variable of a connection keeps its type: no framer reads a byte that    *)
(* has not arrived, and no bracket is closed that was not opened.               *)
THEOREM PortTypes == Spec => []TypeOK
<1>. QED
    BY TypesHold, PTL DEF TypeInv

-----------------------------------------------------------------------------
(* The probe.  Of a method and what has come, each may be a part of the other;  *)
(* a method is ruled out by a byte in which they differ, whatever comes next.   *)
Begins(s, t) == Len(s) <= Len(t) /\ \A i \in 1 .. Len(s) : s[i] = t[i]

Differ(s, t) == \E i \in 1 .. Len(s) : i <= Len(t) /\ s[i] # t[i]

RuledOut(bytes) == \A m \in HTTP_METHOD_PREFIXES : Differ(m, bytes)

Handed == {"handing", "queued", "calling", "awaiting"}

ProbeInv ==
    /\ at \in {"accepted", "peeking", "asleep"} \cup Handed => pos = 0
    /\ setup.http # "none" =>
         /\ at \in Handed => is_http_method_prefix(wire)
         /\ at = "framing" => RuledOut(wire) \/ (shut /\ wire = << >>)

MethodType(m) == m \in Seq(Byte) /\ Len(m) \in 1 .. PeekSize

LEMMA MethodTypes == \A m \in HTTP_METHOD_PREFIXES : MethodType(m)
<1> DEFINE get     == <<71,69,84,32>>
           post    == <<80,79,83,84,32>>
           put     == <<80,85,84,32>>
           head    == <<72,69,65,68,32>>
           delete  == <<68,69,76,69,84,69,32>>
           patch   == <<80,65,84,67,72,32>>
           options == <<79,80,84,73,79,78,83,32>>
           trace   == <<84,82,65,67,69,32>>
           connect == <<67,79,78,78,69,67,84,32>>
<1>1. HTTP_METHOD_PREFIXES = {get, post, put, head, delete, patch, options, trace, connect}
    BY Zenon DEF HTTP_METHOD_PREFIXES
<1>2. /\ MethodType(get) /\ MethodType(post) /\ MethodType(put) /\ MethodType(head)
      /\ MethodType(delete) /\ MethodType(patch) /\ MethodType(options)
      /\ MethodType(trace) /\ MethodType(connect)
    BY DEF MethodType, Byte, PeekSize
<1> HIDE DEF get, post, put, head, delete, patch, options, trace, connect
<1>. QED  BY <1>1, <1>2

LEMMA PrefixIs ==
    ASSUME NEW s \in Seq(Byte), NEW t \in Seq(Byte)
    PROVE  IsPrefix(s, t) <=> Begins(s, t)
<1>1. CASE Len(s) <= Len(t)
  <2>1. /\ Len(s) \in 0 .. Len(s) /\ Len(s) \in 0 .. Len(t)
        /\ 1 \in 1 .. Len(s) + 1 /\ 1 \in 1 .. Len(t) + 1
      BY <1>1
  <2> DEFINE a == SubSeq(s, 1, Len(s))
             b == SubSeq(t, 1, Len(s))
  <2>2. /\ a \in Seq(Byte) /\ Len(a) = (IF 1 <= Len(s) THEN Len(s) - 1 + 1 ELSE 0)
        /\ \A i \in 1 .. Len(s) - 1 + 1 : a[i] = s[1 + i - 1]
      BY <2>1, PieceOf
  <2>3. /\ b \in Seq(Byte) /\ Len(b) = (IF 1 <= Len(s) THEN Len(s) - 1 + 1 ELSE 0)
        /\ \A i \in 1 .. Len(s) - 1 + 1 : b[i] = t[1 + i - 1]
      BY <2>1, PieceOf
  <2> HIDE DEF a, b
  <2>4. Len(a) = Len(s) /\ Len(b) = Len(s) /\ Len(s) \in Nat
      BY <2>2, <2>3
  <2>5. \A i \in 1 .. Len(s) : a[i] = s[i] /\ b[i] = t[i]
      BY <2>2, <2>3, <2>4
  <2>6. (\A i \in 1 .. Len(s) : s[i] = t[i]) => a = b
    <3> SUFFICES ASSUME \A i \in 1 .. Len(s) : s[i] = t[i] PROVE a = b
        OBVIOUS
    <3>1. Len(a) = Len(b) /\ \A i \in 1 .. Len(a) : a[i] = b[i]
        BY <2>4, <2>5
    <3>. QED  BY <2>2, <2>3, <3>1, SeqEqual
  <2>7. a = b => \A i \in 1 .. Len(s) : s[i] = t[i]
      BY <2>5
  <2>. QED  BY <1>1, <2>6, <2>7 DEF IsPrefix, Begins, a, b
<1>2. CASE ~(Len(s) <= Len(t))
    BY <1>2 DEF IsPrefix, Begins
<1>. QED  BY <1>1, <1>2

(* What more has come keeps a method that is there, and one that is not.       *)
LEMMA MoreBytes ==
    ASSUME NEW s \in Seq(Byte), NEW t \in Seq(Byte), Begins(s, t)
    PROVE  /\ is_http_method_prefix(s) => is_http_method_prefix(t)
           /\ RuledOut(s) => RuledOut(t)
<1>1. ASSUME NEW m \in HTTP_METHOD_PREFIXES, IsPrefix(m, s)
      PROVE  IsPrefix(m, t)
  <2>1. m \in Seq(Byte)
      BY MethodTypes DEF MethodType
  <2>2. Begins(m, s)
      BY <1>1, <2>1, PrefixIs
  <2>3. Begins(m, t)
      BY <2>1, <2>2 DEF Begins
  <2>. QED  BY <2>1, <2>3, PrefixIs
<1>2. ASSUME NEW m \in HTTP_METHOD_PREFIXES, Differ(m, s)
      PROVE  Differ(m, t)
    BY <1>2, MethodTypes DEF MethodType, Differ, Begins
<1>. QED  BY <1>1, <1>2 DEF is_http_method_prefix, RuledOut

LEMMA RuledOutIsNot ==
    ASSUME NEW s \in Seq(Byte), RuledOut(s)
    PROVE  ~is_http_method_prefix(s)
<1> SUFFICES ASSUME NEW m \in HTTP_METHOD_PREFIXES, IsPrefix(m, s) PROVE FALSE
    BY DEF is_http_method_prefix
<1>1. Begins(m, s)
    BY MethodTypes, PrefixIs DEF MethodType
<1>. QED  BY <1>1 DEF RuledOut, Differ, Begins

(* The bytes that the probe has seen are an answer for all that follow.        *)
LEMMA PeekRight ==
    ASSUME NEW w \in Seq(Byte), NEW n \in 1 .. Len(w),
           n = PeekSize \/ ~could_be_http_method_prefix(SubSeq(w, 1, n)),
           ~is_http_method_prefix(SubSeq(w, 1, n))
    PROVE  RuledOut(SubSeq(w, 1, n))
<1> DEFINE p == SubSeq(w, 1, n)
<1>1. p \in Seq(Byte) /\ Len(p) = n
  <2>1. 1 \in 1 .. Len(w) + 1 /\ n \in 0 .. Len(w)
      OBVIOUS
  <2>2. p \in Seq(Byte) /\ Len(p) = IF 1 <= n THEN n - 1 + 1 ELSE 0
      BY <2>1, PieceOf
  <2>. QED  BY <2>2
<1> HIDE DEF p
<1> SUFFICES ASSUME NEW m \in HTTP_METHOD_PREFIXES PROVE Differ(m, p)
    BY DEF RuledOut, p
<1>2. m \in Seq(Byte) /\ Len(m) \in 1 .. PeekSize
    BY MethodTypes DEF MethodType
<1>3. ~Begins(m, p)
  <2>1. ~IsPrefix(m, p)
      BY DEF is_http_method_prefix, p
  <2>. QED  BY <1>1, <1>2, <2>1, PrefixIs
<1>4. CASE Len(m) <= Len(p)
    BY <1>1, <1>2, <1>3, <1>4 DEF Begins, Differ
<1>5. CASE ~(Len(m) <= Len(p))
  <2>1. ~could_be_http_method_prefix(p)
    <3>1. n = PeekSize \/ ~could_be_http_method_prefix(p)
        BY DEF p
    <3>2. n < PeekSize
        BY <1>1, <1>2, <1>5 DEF PeekSize
    <3>. QED  BY <3>1, <3>2 DEF PeekSize
  <2>2. ~IsPrefix(p, m)
      BY <2>1 DEF could_be_http_method_prefix
  <2>3. ~Begins(p, m)
      BY <1>1, <1>2, <2>2, PrefixIs
  <2>. QED  BY <1>1, <1>2, <1>5, <2>3 DEF Begins, Differ
<1>. QED  BY <1>4, <1>5

LEMMA WireGrows ==
    TypeInv /\ [Next]_vars => /\ Begins(wire, wire')
                              /\ shut => shut' /\ wire' = wire
<1> SUFFICES ASSUME TypeInv, [Next]_vars
             PROVE  Begins(wire, wire') /\ (shut => shut' /\ wire' = wire)
    OBVIOUS
<1>t. wire \in Seq(Byte) /\ unsent \in Seq(Byte)
    BY DEF TypeInv, TypeOK
<1>1. CASE Send
  <2>1. PICK n \in 1 .. Len(unsent) : wire' = wire \o SubSeq(unsent, 1, n)
      BY <1>1 DEF Send
  <2>2. 1 \in 1 .. Len(unsent) + 1 /\ n \in 0 .. Len(unsent)
      BY <1>t
  <2>3. SubSeq(unsent, 1, n) \in Seq(Byte)
      BY <1>t, <2>2, PieceOf
  <2>4. Begins(wire, wire')
      BY <1>t, <2>1, <2>3 DEF Begins
  <2>. QED  BY <1>1, <2>4 DEF Send
<1>2. CASE UNCHANGED wire
  <2>1. shut => shut'
      BY DEF vars, peer, Next, Peer, Send, Shut, SendFramed, SendBracket, SendClosing,
             SendQuote, SendCharacter, SendToken, Emit, Probe, Accepted, Peek, Wake, Http,
             HandOver, invoke_python_http_handler, HandlerReturns, CoroutineEnds,
             Framer, ReadLength, ReadPayload, ReadEof, JsonStart, JsonByte, Reading,
             RuntimeDropped
  <2>. QED  BY <1>t, <1>2, <2>1 DEF Begins
<1>3. Send \/ UNCHANGED wire
    BY DEF vars, peer, Next, Peer, Shut, SendFramed, SendBracket, SendClosing,
           SendQuote, SendCharacter, SendToken, Emit, Probe, Accepted, Peek, Wake, Http,
           HandOver, invoke_python_http_handler, HandlerReturns, CoroutineEnds,
           Framer, ReadLength, ReadPayload, ReadEof, JsonStart, JsonByte, Reading,
           RuntimeDropped
<1>. QED  BY <1>1, <1>2, <1>3

(* Where the task goes next, and what it has seen when it leaves the probe.     *)
LEMMA AtMoves ==
    TypeInv /\ [Next]_vars =>
        \/ UNCHANGED at
        \/ at = "accepted" /\ at' = IF setup.http = "none" THEN "framing" ELSE "peeking"
        \/ Peek
        \/ at = "asleep" /\ at' = "peeking"
        \/ at \in Handed /\ at' \in {"queued", "calling", "awaiting"}
        \/ at' \in Ended
<1> SUFFICES ASSUME TypeInv, Next, ~UNCHANGED at, ~Peek
             PROVE  \/ at = "accepted" /\ at' = IF setup.http = "none" THEN "framing" ELSE "peeking"
                    \/ at = "asleep" /\ at' = "peeking"
                    \/ at \in Handed /\ at' \in {"queued", "calling", "awaiting"}
                    \/ at' \in Ended
    BY DEF vars
<1>1. CASE Probe
    BY <1>1 DEF Probe, Accepted, Wake
<1>2. CASE Http
    BY <1>2 DEF Http, HandOver, invoke_python_http_handler, HandlerReturns, CoroutineEnds,
                Ended, Handed
<1>3. CASE RuntimeDropped
    BY <1>3 DEF RuntimeDropped, Ended
<1>4. CASE Framer
    BY <1>4, FramerEnds DEF Ended
<1>. QED
    BY <1>1, <1>2, <1>3, <1>4, PeerKeeps DEF Next

LEMMA PosWaits ==
    [Next]_vars => UNCHANGED setup /\ (at # "framing" => UNCHANGED pos)
<1> SUFFICES ASSUME [Next]_vars PROVE UNCHANGED setup /\ (at # "framing" => UNCHANGED pos)
    OBVIOUS
<1>1. CASE Peer \/ UNCHANGED vars
    BY <1>1 DEF vars, framer, Peer, Send, Shut, SendFramed, SendBracket, SendClosing,
                SendQuote, SendCharacter, SendToken, Emit
<1>2. CASE Probe \/ Http \/ RuntimeDropped
    BY <1>2 DEF framer, Probe, Accepted, Peek, Wake, Http, HandOver, RuntimeDropped,
                invoke_python_http_handler, HandlerReturns, CoroutineEnds
<1>3. CASE Framer
    BY <1>3, FramerEnds DEF Framer, ReadLength, ReadPayload, ReadEof, JsonStart, JsonByte,
                            Reading
<1>. QED
    BY <1>1, <1>2, <1>3 DEF Next

(* What the probe decides on the bytes it has peeked at.                       *)
LEMMA PeekDecides ==
    TypeInv /\ Peek =>
        /\ at = "peeking" /\ UNCHANGED <<wire, shut>>
        /\ \/ at' = "asleep"
           \/ at' = "handing" /\ is_http_method_prefix(wire)
           \/ at' = "framing" /\ (RuledOut(wire) \/ (shut /\ wire = << >>))
<1> SUFFICES ASSUME TypeInv, Peek
             PROVE  /\ at = "peeking" /\ UNCHANGED <<wire, shut>>
                    /\ \/ at' = "asleep"
                       \/ at' = "handing" /\ is_http_method_prefix(wire)
                       \/ at' = "framing" /\ (RuledOut(wire) \/ (shut /\ wire = << >>))
    OBVIOUS
<1>t. wire \in Seq(Byte) /\ Len(wire) \in Nat
    BY DEF TypeInv, TypeOK
<1> DEFINE n == Min2(Len(wire), PeekSize)
           prefix == SubSeq(wire, 1, n)
<1>1. n \in 0 .. Len(wire) /\ n <= PeekSize
    BY <1>t DEF Min2, PeekSize
<1>2. /\ at = "peeking" /\ UNCHANGED <<wire, shut>>
      /\ wire # << >> \/ shut
      /\ at' = IF n = 0 THEN "framing"
               ELSE IF is_http_method_prefix(prefix) THEN "handing"
               ELSE IF n = PeekSize \/ ~could_be_http_method_prefix(prefix) THEN "framing"
               ELSE "asleep"
    BY DEF Peek, peer
<1>3. CASE n = 0
  <2>1. wire = << >>
      BY <1>t, <1>3 DEF Min2, PeekSize
  <2>. QED  BY <1>2, <1>3, <2>1
<1>4. CASE n # 0
  <2>1. prefix \in Seq(Byte) /\ Begins(prefix, wire)
    <3>1. 1 \in 1 .. Len(wire) + 1 /\ n \in 1 .. Len(wire)
        BY <1>t, <1>1, <1>4
    <3>2. /\ prefix \in Seq(Byte) /\ Len(prefix) = (IF 1 <= n THEN n - 1 + 1 ELSE 0)
          /\ \A i \in 1 .. n - 1 + 1 : prefix[i] = wire[1 + i - 1]
        BY <1>t, <1>1, <3>1, PieceOf
    <3> HIDE DEF prefix
    <3>3. Len(prefix) = n /\ \A i \in 1 .. n : prefix[i] = wire[i]
        BY <3>1, <3>2
    <3>. QED  BY <1>1, <3>2, <3>3 DEF Begins
  <2>2. is_http_method_prefix(prefix) => is_http_method_prefix(wire)
      BY <1>t, <2>1, MoreBytes
  <2>3. CASE ~is_http_method_prefix(prefix) /\ (n = PeekSize \/ ~could_be_http_method_prefix(prefix))
    <3>1. n \in 1 .. Len(wire)
        BY <1>1, <1>4
    <3>2. RuledOut(prefix)
        BY <1>t, <2>3, <3>1, PeekRight
    <3>3. RuledOut(wire)
        BY <1>t, <2>1, <3>2, MoreBytes
    <3>. QED  BY <1>2, <1>4, <2>3, <3>3
  <2> HIDE DEF prefix, n
  <2>. QED  BY <1>2, <1>4, <2>2, <2>3
<1>. QED  BY <1>3, <1>4

LEMMA ProbeInvStep == TypeInv /\ TypeInv' /\ ProbeInv /\ [Next]_vars => ProbeInv'
<1> SUFFICES ASSUME TypeInv, TypeInv', ProbeInv, [Next]_vars PROVE ProbeInv'
    OBVIOUS
<1>t. wire \in Seq(Byte) /\ wire' \in Seq(Byte)
    BY DEF TypeInv, TypeOK
<1>1. /\ Begins(wire, wire')
      /\ shut => shut' /\ wire' = wire
      /\ UNCHANGED setup /\ (at # "framing" => UNCHANGED pos)
    BY WireGrows, PosWaits
<1>2. /\ is_http_method_prefix(wire) => is_http_method_prefix(wire')
      /\ RuledOut(wire) \/ (shut /\ wire = << >>) => RuledOut(wire') \/ (shut' /\ wire' = << >>)
    BY <1>t, <1>1, MoreBytes
<1>3. CASE UNCHANGED at
    BY <1>1, <1>2, <1>3 DEF ProbeInv, Handed
<1>4. CASE at = "accepted" /\ at' = IF setup.http = "none" THEN "framing" ELSE "peeking"
    BY <1>1, <1>4 DEF ProbeInv, Handed
<1>5. CASE Peek
    BY <1>1, <1>5, PeekDecides DEF ProbeInv, Handed
<1>6. CASE at = "asleep" /\ at' = "peeking"
    BY <1>1, <1>6 DEF ProbeInv, Handed
<1>7. CASE at \in Handed /\ at' \in {"queued", "calling", "awaiting"}
    BY <1>1, <1>2, <1>7 DEF ProbeInv, Handed
<1>8. CASE at' \in Ended
    BY <1>8 DEF ProbeInv, Handed, Ended
<1>. QED
    BY <1>3, <1>4, <1>5, <1>6, <1>7, <1>8, AtMoves

LEMMA ProbeHolds == TypeInv /\ SocketInv /\ ProbeInv => ProbeRight
<1> SUFFICES ASSUME TypeInv, SocketInv, ProbeInv, setup.http # "none"
             PROVE  /\ fd \in {"raw", "socket"} => is_http_method_prefix(WillSend) /\ pos = 0
                    /\ at = "framing" => ~is_http_method_prefix(WillSend) \/ (shut /\ wire = << >>)
    BY DEF ProbeRight
<1>1. wire \in Seq(Byte) /\ WillSend \in Seq(Byte) /\ Begins(wire, WillSend)
    BY DEF TypeInv, TypeOK, WillSend, Begins
<1>2. is_http_method_prefix(wire) => is_http_method_prefix(WillSend)
    BY <1>1, MoreBytes
<1>3. RuledOut(wire) => ~is_http_method_prefix(WillSend)
    BY <1>1, MoreBytes, RuledOutIsNot
<1>4. fd \in {"raw", "socket"} => at \in Handed
    BY DEF SocketInv, Holder, Handed
<1>. QED
    BY <1>2, <1>3, <1>4 DEF ProbeInv

(* Whatever the pieces in which the first bytes arrive and however many methods *)
(* they could still become, only a text that begins with a method goes to the  *)
(* HTTP handler, with every byte still in the socket, and only one that does   *)
(* not, or a connection that ends before its first byte, goes to the framer.    *)
THEOREM ProbeIsRight == Spec => []ProbeRight
<1>1. Init => ProbeInv
    BY DEF Init, ProbeInv, Handed
<1>2. Spec => []ProbeInv
    BY <1>1, TypesHold, ProbeInvStep, PTL DEF Spec
<1>. QED
    BY <1>2, TypesHold, SocketHolds, ProbeHolds, PTL

-----------------------------------------------------------------------------
(***************************************************************************)
(* Both framers of ServicePort cut the stream where the messages end.  All    *)
(* that the peer is sending, on its way or not, is one sequence of bytes that  *)
(* only grows at its end; a framer's variables are a function of the bytes     *)
(* before its position.  For Framed the messages lie one behind the other     *)
(* (Laid) and the framer stands before a length or a payload (Before).  For    *)
(* JSON the reader's variables after each byte are written down in a trace     *)
(* (Scanned), and the trace's end agrees with the brackets and the string      *)
(* that the peer has open (InStep): a reader anywhere in the stream is where    *)
(* the trace is.                                                             *)
(***************************************************************************)
(* The stream: what the peer sends is known before it arrives, and a framer     *)
(* reads what has arrived.                                                   *)
LEMMA StreamIs ==
    TypeInv => /\ WillSend \in Seq(Byte) /\ Len(WillSend) = Sent
               /\ Len(wire) <= Len(WillSend) /\ Len(wire) \in Nat
               /\ \A i \in 1 .. Len(wire) : WillSend[i] = wire[i]
BY DEF TypeInv, TypeOK, WillSend, Sent

LEMMA SendKeeps == TypeInv /\ Send => WillSend' = WillSend
<1> SUFFICES ASSUME TypeInv, Send PROVE WillSend' = WillSend
    OBVIOUS
<1>t. wire \in Seq(Byte) /\ unsent \in Seq(Byte)
    BY DEF TypeInv, TypeOK
<1>1. PICK n \in 1 .. Len(unsent) : /\ wire' = wire \o SubSeq(unsent, 1, n)
                                    /\ unsent' = SubSeq(unsent, n + 1, Len(unsent))
    BY DEF Send
<1> DEFINE a == SubSeq(unsent, 1, n)
           b == SubSeq(unsent, n + 1, Len(unsent))
<1>2. /\ a \in Seq(Byte) /\ Len(a) = (IF 1 <= n THEN n - 1 + 1 ELSE 0)
      /\ \A i \in 1 .. n - 1 + 1 : a[i] = unsent[1 + i - 1]
  <2>1. 1 \in 1 .. Len(unsent) + 1 /\ n \in 0 .. Len(unsent)
      BY <1>t
  <2>. QED  BY <1>t, <2>1, PieceOf
<1>3. /\ b \in Seq(Byte)
      /\ Len(b) = (IF n + 1 <= Len(unsent) THEN Len(unsent) - (n + 1) + 1 ELSE 0)
      /\ \A i \in 1 .. Len(unsent) - (n + 1) + 1 : b[i] = unsent[n + 1 + i - 1]
  <2>1. n + 1 \in 1 .. Len(unsent) + 1 /\ Len(unsent) \in 0 .. Len(unsent)
      BY <1>t
  <2>. QED  BY <1>t, <2>1, PieceOf
<1> HIDE DEF a, b
<1>4. /\ Len(a) = n /\ \A i \in 1 .. n : a[i] = unsent[i]
      /\ Len(b) = Len(unsent) - n /\ \A i \in 1 .. Len(b) : b[i] = unsent[n + i]
      /\ n \in Nat /\ n <= Len(unsent)
    BY <1>t, <1>2, <1>3
<1>5. /\ wire' \in Seq(Byte) /\ Len(wire') = Len(wire) + n
      /\ \A i \in 1 .. Len(wire') : wire'[i] = IF i <= Len(wire) THEN wire[i]
                                                                ELSE unsent[i - Len(wire)]
    BY <1>t, <1>1, <1>2, <1>4 DEF a
<1>6. unsent' = b
    BY <1>1 DEF b
<1>7. /\ WillSend' \in Seq(Byte) /\ Len(WillSend') = Len(wire) + Len(unsent)
      /\ \A i \in 1 .. Len(wire) + Len(unsent) :
           WillSend'[i] = IF i <= Len(wire) THEN wire[i] ELSE unsent[i - Len(wire)]
  <2>1. WillSend' = wire' \o b
      BY <1>6 DEF WillSend
  <2>2. /\ wire' \o b \in Seq(Byte) /\ Len(wire' \o b) = Len(wire') + Len(b)
        /\ \A i \in 1 .. Len(wire') + Len(b) :
             (wire' \o b)[i] = IF i <= Len(wire') THEN wire'[i] ELSE b[i - Len(wire')]
      BY <1>3, <1>5, ConcatProperties
  <2>3. Len(wire') + Len(b) = Len(wire) + Len(unsent) /\ Len(wire) \in Nat /\ Len(unsent) \in Nat
      BY <1>t, <1>4, <1>5
  <2>4. ASSUME NEW i \in 1 .. Len(wire) + Len(unsent)
        PROVE  (wire' \o b)[i] = IF i <= Len(wire) THEN wire[i] ELSE unsent[i - Len(wire)]
    <3>1. CASE i <= Len(wire')
        BY <1>5, <2>2, <2>3, <3>1
    <3>2. CASE ~(i <= Len(wire'))
      <4>1. i - Len(wire') \in 1 .. Len(b) /\ n + (i - Len(wire')) = i - Len(wire)
            /\ ~(i <= Len(wire))
          BY <1>4, <1>5, <2>3, <3>2
      <4>. QED  BY <1>4, <2>2, <2>3, <3>2, <4>1
    <3>. QED  BY <3>1, <3>2
  <2>. QED  BY <2>1, <2>2, <2>3, <2>4
<1>8. /\ WillSend \in Seq(Byte) /\ Len(WillSend) = Len(wire) + Len(unsent)
      /\ \A i \in 1 .. Len(wire) + Len(unsent) :
           WillSend[i] = IF i <= Len(wire) THEN wire[i] ELSE unsent[i - Len(wire)]
    BY <1>t DEF WillSend
<1>. QED  BY <1>7, <1>8, SeqEqual

LEMMA EmitAdds ==
    ASSUME TypeInv, unsent = << >>, wire' = wire, unsent' \in Seq(Byte)
    PROVE  WillSend = wire /\ WillSend' = WillSend \o unsent'
<1>1. wire \in Seq(Byte)
    BY DEF TypeInv, TypeOK
<1>2. wire \o << >> = wire
    BY <1>1
<1>. QED  BY <1>2 DEF WillSend

-----------------------------------------------------------------------------
(* Framed.  The messages of the stream lie one behind the other, each behind    *)
(* the four bytes of its length, and the framer is before a length, or before   *)
(* the payload that the length announces.                                      *)
EndOf(ms, j) == IF j = 0 THEN 0 ELSE ms[j][2]

Length(ms, j) == ms[j][2] - EndOf(ms, j - 1) - 4

LaidOut(w, ms, j) ==
    /\ ms[j][1] = EndOf(ms, j - 1) + 5
    /\ Length(ms, j) \in 0 .. 255 /\ ms[j][2] <= Len(w)
    /\ w[EndOf(ms, j - 1) + 1] = 0 /\ w[EndOf(ms, j - 1) + 2] = 0
    /\ w[EndOf(ms, j - 1) + 3] = 0 /\ w[EndOf(ms, j - 1) + 4] = Length(ms, j)

Laid(w, ms) == EndOf(ms, Len(ms)) = Len(w) /\ \A j \in 1 .. Len(ms) : LaidOut(w, ms, j)

Before(ms, k, size, p) ==
    \/ size = 0 /\ p = EndOf(ms, k)
    \/ k < Len(ms) /\ size > 0 /\ size = Length(ms, k + 1) /\ p = EndOf(ms, k) + 4

FramedInv ==
    /\ Laid(WillSend, msgs)
    /\ Len(frames) <= Len(msgs) /\ \A i \in 1 .. Len(frames) : frames[i] = msgs[i]
    /\ at \notin Ended => Before(msgs, Len(frames), cut.size, pos)

LEMMA EndNat ==
    ASSUME NEW ms \in Seq(Nat \X Nat), NEW j \in 0 .. Len(ms)
    PROVE  EndOf(ms, j) \in Nat
<1>1. CASE j = 0
    BY <1>1 DEF EndOf
<1>2. CASE j # 0
  <2>1. j \in 1 .. Len(ms)
      BY <1>2
  <2>2. ms[j] \in Nat \X Nat
      BY <2>1, ItemOf
  <2>. QED  BY <1>2, <2>2 DEF EndOf
<1>. QED  BY <1>1, <1>2

(* One message more leaves where the others lie.                               *)
LEMMA EndKept ==
    ASSUME NEW ms \in Seq(Nat \X Nat), NEW m \in Nat \X Nat
    PROVE  LET ms2 == Append(ms, m) IN
           /\ Len(ms) \in Nat /\ Len(ms2) = Len(ms) + 1
           /\ ms2[Len(ms) + 1] = m /\ \A j \in 1 .. Len(ms) : ms2[j] = ms[j]
           /\ \A j \in 0 .. Len(ms) : EndOf(ms2, j) = EndOf(ms, j)
           /\ \A j \in 1 .. Len(ms) : Length(ms2, j) = Length(ms, j)
<1> DEFINE ms2 == Append(ms, m)
<1>1. /\ Len(ms) \in Nat /\ Len(ms2) = Len(ms) + 1
      /\ ms2[Len(ms) + 1] = m /\ \A j \in 1 .. Len(ms) : ms2[j] = ms[j]
    OBVIOUS
<1> HIDE DEF ms2
<1>2. ASSUME NEW j \in 0 .. Len(ms) PROVE EndOf(ms2, j) = EndOf(ms, j)
  <2>1. j = 0 \/ j \in 1 .. Len(ms)
      BY <1>1
  <2>. QED  BY <1>1, <2>1 DEF EndOf
<1>3. ASSUME NEW j \in 1 .. Len(ms) PROVE Length(ms2, j) = Length(ms, j)
  <2>1. j - 1 \in 0 .. Len(ms)
      BY <1>1
  <2>. QED  BY <1>1, <1>2, <2>1 DEF Length
<1>. QED  BY <1>1, <1>2, <1>3 DEF ms2

(* A message that follows the others.                                         *)
Announced(piece, n) ==
    /\ piece \in Seq(Byte) /\ Len(piece) = 4 + n
    /\ piece[1] = 0 /\ piece[2] = 0 /\ piece[3] = 0 /\ piece[4] = n

LEMMA LaidNext ==
    ASSUME NEW w \in Seq(Byte), NEW ms \in Seq(Nat \X Nat), Laid(w, ms),
           NEW n \in 0 .. 255, NEW piece, Announced(piece, n)
    PROVE  Laid(w \o piece, Append(ms, <<Len(w) + 5, Len(w) + Len(piece)>>))
<1> DEFINE s   == Len(w)
           k   == Len(ms)
           w2  == w \o piece
           m   == <<s + 5, s + Len(piece)>>
           ms2 == Append(ms, m)
<1>1. s \in Nat /\ k \in Nat /\ n \in Nat
    OBVIOUS
<1>2. /\ Len(w2) = s + 4 + n /\ \A i \in 1 .. s : w2[i] = w[i]
      /\ w2[s + 1] = 0 /\ w2[s + 2] = 0 /\ w2[s + 3] = 0 /\ w2[s + 4] = n
  <2>0. piece \in Seq(Byte) /\ w \in Seq(Byte)
      BY DEF Announced
  <2>1. /\ Len(w2) = s + Len(piece)
        /\ \A i \in 1 .. s + Len(piece) : w2[i] = IF i <= s THEN w[i] ELSE piece[i - s]
      BY <2>0, ConcatProperties, Zenon
  <2> HIDE DEF s, w2
  <2>2. Len(w2) = s + 4 + n
      BY <1>1, <2>1 DEF Announced
  <2>3. \A i \in 1 .. s : w2[i] = w[i]
      BY <1>1, <2>1
  <2>4. \A i \in 1 .. 4 : w2[s + i] = piece[i]
    <3> SUFFICES ASSUME NEW i \in 1 .. 4 PROVE w2[s + i] = piece[i]
        OBVIOUS
    <3>1. s + i \in 1 .. s + Len(piece) /\ ~(s + i <= s) /\ (s + i) - s = i
        BY <1>1 DEF Announced
    <3>. QED  BY <2>1, <3>1
  <2>. QED  BY <2>2, <2>3, <2>4 DEF Announced
<1>3. m \in Nat \X Nat /\ m[1] = s + 5 /\ m[2] = s + 4 + n
  <2> HIDE DEF s
  <2>. QED  BY <1>1 DEF Announced
<1> HIDE DEF m
<1>4. /\ Len(ms2) = k + 1 /\ ms2[k + 1] = m
      /\ \A j \in 1 .. k : ms2[j] = ms[j] /\ Length(ms2, j) = Length(ms, j)
      /\ \A j \in 0 .. k : EndOf(ms2, j) = EndOf(ms, j)
    BY <1>3, EndKept
<1>5. /\ EndOf(ms, k) = s /\ \A j \in 1 .. k : LaidOut(w, ms, j)
      /\ \A j \in 0 .. k : EndOf(ms, j) \in Nat
    BY EndNat DEF Laid
<1> HIDE DEF s, k, w2, ms2
<1>6. EndOf(ms2, k + 1) = s + 4 + n
    BY <1>1, <1>3, <1>4 DEF EndOf
<1>7. ASSUME NEW j \in 1 .. k PROVE LaidOut(w2, ms2, j)
  <2> DEFINE e == EndOf(ms, j - 1)  last == ms[j][2]
  <2>1. LaidOut(w, ms, j) /\ e \in Nat /\ EndOf(ms2, j - 1) = e
    <3>1. j - 1 \in 0 .. k
        BY <1>1
    <3>. QED  BY <1>4, <1>5, <3>1
  <2>2. ms2[j] = ms[j] /\ Length(ms2, j) = Length(ms, j)
      BY <1>4
  <2>3. last \in Nat
    <3>1. j \in 0 .. k /\ j # 0
        BY <1>1
    <3>. QED  BY <1>5, <3>1 DEF EndOf
  <2>5. last - e - 4 \in 0 .. 255 /\ last <= s
      BY <2>1 DEF LaidOut, Length, s
  <2> HIDE DEF e, last
  <2>6. e + 1 \in 1 .. s /\ e + 2 \in 1 .. s /\ e + 3 \in 1 .. s /\ e + 4 \in 1 .. s
    <3>1. e \in Nat
        BY <2>1
    <3>. QED  BY <1>1, <2>3, <2>5, <3>1
  <2>7. last <= Len(w2)
      BY <1>1, <1>2, <2>3, <2>5
  <2>. QED  BY <1>2, <2>1, <2>2, <2>6, <2>7 DEF LaidOut, e, last
<1>8. LaidOut(w2, ms2, k + 1)
  <2>1. EndOf(ms2, (k + 1) - 1) = s
    <3>1. (k + 1) - 1 = k /\ k \in 0 .. k
        BY <1>1
    <3>. QED  BY <1>4, <1>5, <3>1
  <2>2. ms2[k + 1][1] = s + 5 /\ ms2[k + 1][2] = s + 4 + n
      BY <1>3, <1>4
  <2>3. Length(ms2, k + 1) = n
      BY <1>1, <2>1, <2>2 DEF Length
  <2>4. n \in 0 .. 255 /\ ms2[k + 1][2] <= Len(w2)
      BY <1>1, <1>2, <2>2
  <2>. QED  BY <1>2, <2>1, <2>2, <2>3, <2>4, Zenon DEF LaidOut
<1>. QED
  <2>1. Len(ms2) = k + 1 /\ EndOf(ms2, k + 1) = Len(w2)
      BY <1>2, <1>4, <1>6
  <2>2. \A j \in 1 .. k + 1 : LaidOut(w2, ms2, j)
      BY <1>1, <1>7, <1>8
  <2>. QED  BY <2>1, <2>2 DEF Laid, w2, ms2, m, s

LEMMA SendFramedKeeps == TypeInv /\ FramedInv /\ SendFramed => FramedInv'
<1> SUFFICES ASSUME TypeInv, FramedInv, SendFramed PROVE FramedInv'
    OBVIOUS
<1>t. /\ wire \in Seq(Byte) /\ msgs \in Seq(Nat \X Nat) /\ frames \in Seq(Nat \X Nat)
      /\ Len(msgs) \in Nat /\ Len(frames) \in Nat
    BY DEF TypeInv, TypeOK
<1>1. PICK n \in 0 .. MaxFrame :
        LET message == <<0, 0, 0, n>> \o [i \in 1 .. n |-> 0] IN
        /\ unsent' = message
        /\ msgs' = Append(msgs, <<Sent + 5, Sent + Len(message)>>)
    BY DEF SendFramed
<1>2. UNCHANGED <<wire, at, pos, cut, frames>> /\ unsent = << >>
    BY DEF SendFramed, Speaks, framer
<1>3. n \in Nat /\ n \in 0 .. 255
    BY Bounds
<1>4. Announced(unsent', n)
  <2>1. <<0, 0, 0, n>> \in Seq(Byte) /\ [i \in 1 .. n |-> 0] \in Seq(Byte)
      BY <1>3 DEF Byte
  <2>2. Len([i \in 1 .. n |-> 0]) = n
      BY <1>3
  <2>. QED  BY <1>1, <1>3, <2>1, <2>2 DEF Announced
<1>5. WillSend \in Seq(Byte) /\ Len(WillSend) = Sent /\ WillSend' = WillSend \o unsent'
    BY <1>2, <1>4, EmitAdds, StreamIs DEF Announced
<1>6. msgs' = Append(msgs, <<Len(WillSend) + 5, Len(WillSend) + Len(unsent')>>)
    BY <1>1, <1>5
<1>7. Laid(WillSend', msgs')
  <2>1. Laid(WillSend, msgs)
      BY DEF FramedInv
  <2>. QED  BY <1>t, <1>3, <1>4, <1>5, <1>6, <2>1, LaidNext, Zenon
<1>8. <<Len(WillSend) + 5, Len(WillSend) + Len(unsent')>> \in Nat \X Nat
    BY <1>3, <1>4, <1>5 DEF Announced
<1>9. /\ Len(msgs') = Len(msgs) + 1 /\ \A j \in 1 .. Len(msgs) : msgs'[j] = msgs[j]
      /\ \A j \in 0 .. Len(msgs) : EndOf(msgs', j) = EndOf(msgs, j)
      /\ \A j \in 1 .. Len(msgs) : Length(msgs', j) = Length(msgs, j)
    BY <1>t, <1>6, <1>8, EndKept, Zenon
<1>10. Len(frames) \in 0 .. Len(msgs) /\ Len(frames) <= Len(msgs')
    BY <1>t, <1>9 DEF FramedInv
<1>11. \A i \in 1 .. Len(frames) : frames[i] = msgs'[i]
    BY <1>t, <1>9, <1>10 DEF FramedInv
<1>12. ASSUME Before(msgs, Len(frames), cut.size, pos)
       PROVE  Before(msgs', Len(frames), cut.size, pos)
  <2>1. EndOf(msgs', Len(frames)) = EndOf(msgs, Len(frames))
      BY <1>9, <1>10
  <2>2. Len(frames) < Len(msgs) => /\ Length(msgs', Len(frames) + 1) = Length(msgs, Len(frames) + 1)
                                   /\ Len(frames) < Len(msgs')
    <3>1. Len(frames) < Len(msgs) => Len(frames) + 1 \in 1 .. Len(msgs)
        BY <1>t
    <3>. QED  BY <1>t, <1>9, <3>1
  <2>. QED  BY <1>12, <2>1, <2>2 DEF Before
<1>. QED  BY <1>2, <1>7, <1>10, <1>11, <1>12 DEF FramedInv

(* The four bytes of a length below 256.                                      *)
LEMMA LengthRead ==
    ASSUME NEW b, b[1] = 0, b[2] = 0, b[3] = 0, b[4] \in Int
    PROVE  I32(b) = b[4]
BY SMT DEF I32

(* The framer is before a message: the next one, as far as it has arrived.      *)
LEMMA NextLaid ==
    ASSUME TypeInv, FramedInv, NEW n \in 0 .. Len(msgs), n < Len(msgs)
    PROVE  /\ n + 1 \in 1 .. Len(msgs)
           /\ msgs[n + 1] = <<EndOf(msgs, n) + 5, EndOf(msgs, n) + 4 + Length(msgs, n + 1)>>
           /\ Length(msgs, n + 1) \in 0 .. 255 /\ EndOf(msgs, n) \in Nat
           /\ EndOf(msgs, n + 1) = EndOf(msgs, n) + 4 + Length(msgs, n + 1)
           /\ \A i \in 1 .. 3 : WillSend[EndOf(msgs, n) + i] = 0
           /\ WillSend[EndOf(msgs, n) + 4] = Length(msgs, n + 1)
<1> DEFINE e == EndOf(msgs, n)  m == msgs[n + 1]  last == m[2]
<1>1. n + 1 \in 1 .. Len(msgs) /\ (n + 1) - 1 = n /\ n + 1 # 0
    BY DEF TypeInv, TypeOK
<1>2. m \in Nat \X Nat
    BY <1>1, ItemOf DEF TypeInv, TypeOK
<1>3. e \in Nat
    BY EndNat DEF TypeInv, TypeOK
<1>4. LaidOut(WillSend, msgs, n + 1) /\ EndOf(msgs, (n + 1) - 1) = e
    BY <1>1 DEF FramedInv, Laid
<1>5. Length(msgs, n + 1) = last - e - 4 /\ EndOf(msgs, n + 1) = last
    BY <1>1, <1>4 DEF Length, EndOf
<1>6. /\ m[1] = e + 5 /\ Length(msgs, n + 1) \in 0 .. 255
      /\ WillSend[e + 1] = 0 /\ WillSend[e + 2] = 0 /\ WillSend[e + 3] = 0
      /\ WillSend[e + 4] = Length(msgs, n + 1)
    BY <1>4, Zenon DEF LaidOut
<1>7. m = <<m[1], m[2]>> /\ last \in Nat
    BY <1>2
<1> HIDE DEF e, m, last
<1>8. last = e + 4 + Length(msgs, n + 1)
    BY <1>3, <1>5, <1>7
<1>9. \A i \in 1 .. 3 : WillSend[e + i] = 0
  <2> SUFFICES ASSUME NEW i \in 1 .. 3 PROVE WillSend[e + i] = 0
      OBVIOUS
  <2>1. i = 1 \/ i = 2 \/ i = 3
      OBVIOUS
  <2>. QED  BY <1>6, <2>1
<1>10. m = <<e + 5, e + 4 + Length(msgs, n + 1)>>
    BY <1>6, <1>7, <1>8 DEF last
<1>. QED  BY <1>1, <1>3, <1>5, <1>6, <1>8, <1>9, <1>10 DEF e, m

LEMMA FramedReads ==
    TypeInv /\ FramedInv /\ setup.framing = "framed" /\ Framer =>
        FramedInv' /\ (at' = "failed" => at = "failed" \/ shut)
<1> SUFFICES ASSUME TypeInv, FramedInv, setup.framing = "framed", Framer
             PROVE  FramedInv' /\ (at' = "failed" => at = "failed" \/ shut)
    OBVIOUS
<1> DEFINE n == Len(frames)
<1>t. /\ pos \in Nat /\ pos <= Len(wire) /\ Len(wire) \in Nat /\ wire \in Seq(Byte)
      /\ cut \in CutState /\ cut.size \in Nat
      /\ frames \in Seq(Nat \X Nat) /\ msgs \in Seq(Nat \X Nat)
      /\ n \in Nat /\ Len(msgs) \in Nat /\ n \in 0 .. Len(msgs)
    BY DEF TypeInv, TypeOK, CutState, FramedInv
<1>1. UNCHANGED <<wire, unsent, msgs, shut>> /\ WillSend' = WillSend
    BY DEF Framer, ReadLength, ReadPayload, ReadEof, JsonStart, JsonByte, Reading, peer, WillSend
<1>2. at = "framing" /\ Before(msgs, n, cut.size, pos)
    BY FramerEnds DEF FramedInv, Ended
<1>3. Laid(WillSend', msgs')
    BY <1>1 DEF FramedInv
<1>4. \A i \in 1 .. n : frames[i] = msgs[i]
    BY DEF FramedInv
<1>5. CASE ReadLength
  <2> DEFINE b == SubSeq(wire, pos + 1, pos + 4)
  <2>1. pos' = pos + 4 /\ Len(wire) - pos >= 4 /\ cut.size = 0 /\ UNCHANGED frames
    <3>1. CASE I32(b) > 0
        BY <1>5, <3>1 DEF ReadLength, Arrived
    <3>2. CASE ~(I32(b) > 0)
        BY <1>5, <3>2 DEF ReadLength, Arrived
    <3>. QED  BY <3>1, <3>2
  <2>2. pos = EndOf(msgs, n)
      BY <1>2, <2>1 DEF Before
  <2>3. n < Len(msgs)
    <3>1. Len(wire) <= Len(WillSend) /\ Len(WillSend) \in Nat /\ EndOf(msgs, Len(msgs)) = Len(WillSend)
        BY StreamIs DEF FramedInv, Laid
    <3>2. EndOf(msgs, n) # EndOf(msgs, Len(msgs))
        BY <1>t, <2>1, <2>2, <3>1
    <3>. QED  BY <1>t, <3>2
  <2> DEFINE size == Length(msgs, n + 1)
  <2>4. /\ size \in 0 .. 255 /\ EndOf(msgs, n) \in Nat
        /\ \A i \in 1 .. 3 : WillSend[pos + i] = 0
        /\ WillSend[pos + 4] = size
      BY <1>t, <2>2, <2>3, NextLaid
  <2> HIDE DEF size
  <2>5. \A i \in 1 .. 4 : b[i] = WillSend[pos + i]
    <3>1. pos + 1 \in 1 .. Len(wire) + 1 /\ pos + 4 \in 0 .. Len(wire)
        BY <1>t, <2>1
    <3>2. \A i \in 1 .. pos + 4 - (pos + 1) + 1 : b[i] = wire[pos + 1 + i - 1]
        BY <1>t, <3>1, PieceOf
    <3> HIDE DEF b
    <3> SUFFICES ASSUME NEW i \in 1 .. 4 PROVE b[i] = WillSend[pos + i]
        OBVIOUS
    <3>3. /\ i \in 1 .. pos + 4 - (pos + 1) + 1 /\ pos + 1 + i - 1 = pos + i
          /\ pos + i \in 1 .. Len(wire)
        BY <1>t, <2>1
    <3>4. b[i] = wire[pos + i]
        BY <3>2, <3>3
    <3>. QED  BY <3>3, <3>4, StreamIs
  <2> HIDE DEF b
  <2>6. I32(b) = size
    <3>1. b[1] = 0 /\ b[2] = 0 /\ b[3] = 0 /\ b[4] = size /\ b[4] \in Int
        BY <2>4, <2>5
    <3>. QED  BY <3>1, LengthRead, Zenon
  <2>7. CASE size > 0
    <3>1. cut' = [cut EXCEPT !.size = size] /\ UNCHANGED at
        BY <1>5, <2>6, <2>7 DEF ReadLength, Goes, b
    <3>2. cut'.size = size
        BY <1>t, <3>1, SizeSet
    <3>3. Before(msgs', Len(frames'), cut'.size, pos')
        BY <1>1, <2>1, <2>2, <2>3, <2>4, <2>7, <3>2 DEF Before, size
    <3>. QED  BY <1>t, <1>1, <1>2, <1>3, <1>4, <2>1, <3>1, <3>3 DEF FramedInv
  <2>8. CASE ~(size > 0)
    <3>1. at' = "done"
        BY <1>5, <2>6, <2>8 DEF ReadLength, Ends, b
    <3>. QED  BY <1>t, <1>1, <1>3, <1>4, <2>1, <3>1 DEF FramedInv, Ended
  <2>. QED  BY <2>7, <2>8
<1>6. CASE ReadPayload
  <2> DEFINE size == Length(msgs, n + 1)
  <2>1. /\ pos' = pos + cut.size /\ cut.size > 0 /\ UNCHANGED at
        /\ cut' = NoFrame /\ frames' = Append(frames, <<pos + 1, pos + cut.size>>)
      BY <1>6 DEF ReadPayload, Cut, Goes
  <2>2. n < Len(msgs) /\ cut.size = size /\ pos = EndOf(msgs, n) + 4
      BY <1>2, <2>1 DEF Before
  <2>3. /\ msgs[n + 1] = <<EndOf(msgs, n) + 5, EndOf(msgs, n) + 4 + size>>
        /\ EndOf(msgs, n + 1) = EndOf(msgs, n) + 4 + size
        /\ EndOf(msgs, n) \in Nat /\ size \in 0 .. 255
      BY <1>t, <2>2, NextLaid
  <2> HIDE DEF size
  <2>4. pos + 1 = EndOf(msgs, n) + 5 /\ pos + cut.size = EndOf(msgs, n) + 4 + size
      BY <2>2, <2>3
  <2>5. frames' = Append(frames, msgs[n + 1]) /\ msgs[n + 1] \in Nat \X Nat
    <3>1. msgs[n + 1] \in Nat \X Nat
        BY <1>t, <2>2, ItemOf
    <3>. QED  BY <2>1, <2>3, <2>4, <3>1
  <2>6. /\ Len(frames') = n + 1 /\ frames'[n + 1] = msgs[n + 1]
        /\ \A i \in 1 .. n : frames'[i] = frames[i]
      BY <1>t, <2>5
  <2>7. \A i \in 1 .. n + 1 : frames'[i] = msgs[i]
    <3> SUFFICES ASSUME NEW i \in 1 .. n + 1 PROVE frames'[i] = msgs[i]
        OBVIOUS
    <3>1. i \in 1 .. n \/ i = n + 1
        BY <1>t
    <3>. QED  BY <1>4, <2>6, <3>1
  <2>8. n + 1 <= Len(msgs) /\ cut'.size = 0 /\ pos' = EndOf(msgs, n + 1)
      BY <1>t, <2>1, <2>2, <2>3, <2>4 DEF NoFrame
  <2> HIDE DEF n
  <2>9. Before(msgs', Len(frames'), cut'.size, pos')
      BY <1>1, <2>6, <2>8 DEF Before
  <2>. QED  BY <1>1, <1>2, <1>3, <2>1, <2>6, <2>7, <2>8, <2>9 DEF FramedInv
<1>7. CASE ReadEof
  <2>1. UNCHANGED <<pos, cut, frames>> /\ at' \in Ended /\ shut
      BY <1>7 DEF ReadEof, framer, Ends, AtEnd, Ended
  <2>. QED  BY <1>t, <1>1, <1>3, <1>4, <2>1 DEF FramedInv
<1>. QED
    BY <1>5, <1>6, <1>7 DEF Framer, JsonStart, JsonByte, Framing

-----------------------------------------------------------------------------
(* JSON.  What the framer's variables are after each byte of the stream, and    *)
(* how many messages have ended by then, follows from the bytes alone; that the *)
(* brackets it counts are those that the peer has open is the invariant.        *)
Scan(c, byte) ==
    IF ~c.started THEN IF byte \in Opening
                       THEN [c EXCEPT !.started = TRUE, !.depth = 1, !.size = 1]
                       ELSE c
    ELSE LET next == IF c.inString THEN InString(c, byte) ELSE OutOfString(c, byte)
         IN  IF next.depth = 0 THEN NoFrame ELSE [next EXCEPT !.size = @ + 1]

Fair(c) == c \in CutState /\ (IF c.started THEN c.depth >= 1 ELSE c = NoFrame)

Completes(c, byte) == c.started /\ ~Scan(c, byte).started

Follows(w, ms, st, cnt, i) ==
    /\ st[i] = Scan(st[i - 1], w[i])
    /\ ~st[i - 1].started => w[i] \in Space \cup Opening
    /\ IF Completes(st[i - 1], w[i])
       THEN cnt[i] = cnt[i - 1] + 1 /\ ms[cnt[i]] = <<i - st[i - 1].size, i>>
       ELSE cnt[i] = cnt[i - 1]

Scanned(w, ms, st, cnt) ==
    /\ st \in [0 .. Len(w) -> CutState] /\ cnt \in [0 .. Len(w) -> Nat]
    /\ st[0] = NoFrame /\ cnt[0] = 0
    /\ \A i \in 0 .. Len(w) : Fair(st[i]) /\ cnt[i] <= cnt[Len(w)]
    /\ \A i \in 1 .. Len(w) : Follows(w, ms, st, cnt, i)

(* The peer's side of it, after n messages and with the framer in c.           *)
Began(ms, len, c, n) == n + 1 = Len(ms) /\ ms[n + 1] = <<len - c.size + 1, 0>>

Inside(o, ms, len, c, n) ==
    /\ Began(ms, len, c, n)
    /\ ~c.escaped /\ (c.inString <=> Head(o) = Quote)
    /\ c.depth = Len(o) - (IF Head(o) = Quote THEN 1 ELSE 0)
    /\ \A i \in 2 .. Len(o) : o[i] # Quote

InStep(o, ms, len, c, n) ==
    /\ c.started <=> o # << >>
    /\ IF o = << >> THEN n = Len(ms) ELSE Inside(o, ms, len, c, n)

Tracked(st, cnt) ==
    LET len == Len(WillSend) IN
    /\ Scanned(WillSend, msgs, st, cnt)
    /\ InStep(open, msgs, len, st[len], cnt[len])
    /\ Len(frames) <= cnt[len] /\ \A i \in 1 .. Len(frames) : frames[i] = msgs[i]
    /\ at \notin Ended => cut = st[pos] /\ Len(frames) = cnt[pos]

JsonInv == \E st, cnt : Tracked(st, cnt)

LEMMA Characters ==
    /\ Quote = 34 /\ Backslash = 92
    /\ \A b \in Opening : b \notin Space /\ b # Quote
    /\ \A b \in Opening : /\ Closing[b] \in Range(Closing) /\ Closing[b] # Quote
                          /\ Closing[b] \notin Opening
    /\ Quote \notin Opening /\ 32 \in Space /\ 32 \notin Opening /\ 32 # Quote
    /\ 32 \notin Range(Closing)
<1>1. DOMAIN Closing = Opening /\ \A b \in Opening : Closing[b] = b + 2
    BY DEF Closing
<1>2. \A b \in Opening : b = 91 \/ b = 123
    BY DEF Opening
<1>3. Range(Closing) = {Closing[b] : b \in Opening}
    BY <1>1 DEF Range
<1>4. \A b \in Opening : Closing[b] \in {93, 125}
    BY <1>1, <1>2
<1>. QED  BY <1>3, <1>4 DEF Opening, Quote, Backslash, Space

LEMMA StartedSet ==
    ASSUME NEW c \in CutState
    PROVE  LET d == [c EXCEPT !.started = TRUE, !.depth = 1, !.size = 1] IN
           /\ d \in CutState /\ d.started /\ d.depth = 1 /\ d.size = 1
           /\ d.inString = c.inString /\ d.escaped = c.escaped
BY DEF CutState

LEMMA ScanFair ==
    ASSUME NEW c, Fair(c), NEW byte
    PROVE  Fair(Scan(c, byte)) /\ Scan(c, byte) \in CutState
<1>1. CASE ~c.started
  <2>1. CASE byte \in Opening
    <3>1. Scan(c, byte) = [c EXCEPT !.started = TRUE, !.depth = 1, !.size = 1]
        BY <1>1, <2>1 DEF Scan
    <3>2. c \in CutState
        BY DEF Fair
    <3>3. Scan(c, byte) \in CutState /\ Scan(c, byte).started /\ Scan(c, byte).depth = 1
        BY <3>1, <3>2, StartedSet, Zenon
    <3>4. Scan(c, byte).depth >= 1
        BY <3>3
    <3>. QED  BY <3>3, <3>4, Zenon DEF Fair
  <2>2. CASE byte \notin Opening
      BY <1>1, <2>2 DEF Scan, Fair
  <2>. QED  BY <2>1, <2>2
<1>2. CASE c.started
  <2> DEFINE next == IF c.inString THEN InString(c, byte) ELSE OutOfString(c, byte)
  <2>1. next \in CutState /\ next.started
      BY <1>2, ByteTypes DEF Fair
  <2>2. Scan(c, byte) = IF next.depth = 0 THEN NoFrame ELSE [next EXCEPT !.size = @ + 1]
      BY <1>2 DEF Scan
  <2> HIDE DEF next
  <2>3. CASE next.depth = 0
      BY <2>2, <2>3, NoFrameType DEF Fair, NoFrame
  <2>4. CASE next.depth # 0
    <3>1. next.size + 1 \in Nat /\ next.depth >= 1
        BY <2>1, <2>4 DEF CutState
    <3>2. Scan(c, byte) = [next EXCEPT !.size = next.size + 1]
        BY <2>2, <2>4
    <3>3. Scan(c, byte) \in CutState
        BY <2>1, <3>1, <3>2, CutFields
    <3>4. Scan(c, byte).started /\ Scan(c, byte).depth = next.depth
        BY <2>1, <3>2, SizeSet
    <3>. QED  BY <3>1, <3>3, <3>4 DEF Fair
  <2>. QED  BY <2>3, <2>4
<1>. QED  BY <1>1, <1>2

(* One byte more.                                                            *)
OneMore(w, byte, ms, st, cnt, st2, cnt2) ==
    /\ Scanned(Append(w, byte), ms, st2, cnt2)
    /\ \A i \in 0 .. Len(w) : st2[i] = st[i] /\ cnt2[i] = cnt[i]
    /\ st2[Len(w) + 1] = Scan(st[Len(w)], byte)
    /\ cnt2[Len(w) + 1] = cnt[Len(w)] + (IF Completes(st[Len(w)], byte) THEN 1 ELSE 0)

LEMMA ScanNext ==
    ASSUME NEW w \in Seq(Byte), NEW ms, NEW st, NEW cnt, Scanned(w, ms, st, cnt),
           NEW byte \in Byte, NEW ms2,
           ~st[Len(w)].started => byte \in Space \cup Opening,
           \A j \in 1 .. cnt[Len(w)] : ms2[j] = ms[j],
           Completes(st[Len(w)], byte) =>
               ms2[cnt[Len(w)] + 1] = <<Len(w) + 1 - st[Len(w)].size, Len(w) + 1>>
    PROVE  \E st2, cnt2 : OneMore(w, byte, ms2, st, cnt, st2, cnt2)
<1> DEFINE s    == Len(w)
           w2   == Append(w, byte)
           st2  == [i \in 0 .. s + 1 |-> IF i <= s THEN st[i] ELSE Scan(st[s], byte)]
           more == IF Completes(st[s], byte) THEN 1 ELSE 0
           cnt2 == [i \in 0 .. s + 1 |-> IF i <= s THEN cnt[i] ELSE cnt[s] + more]
<1>1. s \in Nat /\ Len(w2) = s + 1 /\ w2[s + 1] = byte /\ \A i \in 1 .. s : w2[i] = w[i]
    OBVIOUS
<1>2. /\ st \in [0 .. s -> CutState] /\ cnt \in [0 .. s -> Nat]
      /\ st[0] = NoFrame /\ cnt[0] = 0
      /\ \A i \in 0 .. s : Fair(st[i]) /\ cnt[i] <= cnt[s]
      /\ \A i \in 1 .. s : Follows(w, ms, st, cnt, i)
    BY Zenon DEF Scanned
<1> HIDE DEF w2
<1>3. s \in 0 .. s /\ 0 \in 0 .. s /\ st[s] \in CutState /\ cnt[s] \in Nat /\ Fair(st[s])
    BY <1>1, <1>2
<1>4. Fair(Scan(st[s], byte)) /\ Scan(st[s], byte) \in CutState
    BY <1>3, ScanFair
<1> HIDE DEF s
<1>5. /\ \A i \in 0 .. s : st2[i] = st[i] /\ cnt2[i] = cnt[i]
      /\ st2[s + 1] = Scan(st[s], byte) /\ cnt2[s + 1] = cnt[s] + more
      /\ st2 \in [0 .. s + 1 -> CutState] /\ cnt2 \in [0 .. s + 1 -> Nat]
    BY <1>1, <1>2, <1>3, <1>4
<1> HIDE DEF st2, cnt2
<1>6. ASSUME NEW i \in 0 .. s + 1 PROVE Fair(st2[i]) /\ cnt2[i] <= cnt2[s + 1]
  <2>1. cnt[s] <= cnt2[s + 1]
      BY <1>3, <1>5
  <2>2. CASE i \in 0 .. s
    <3>1. Fair(st[i]) /\ cnt[i] <= cnt[s] /\ cnt[i] \in Nat
        BY <1>2, <2>2
    <3>2. cnt2[i] = cnt[i] /\ cnt2[s + 1] \in Nat /\ st2[i] = st[i]
        BY <1>1, <1>5, <2>2
    <3>. QED  BY <1>3, <2>1, <3>1, <3>2
  <2>3. CASE i = s + 1
      BY <1>1, <1>4, <1>5, <2>3
  <2>. QED  BY <1>1, <2>2, <2>3
<1>7. ASSUME NEW i \in 1 .. s + 1 PROVE Follows(w2, ms2, st2, cnt2, i)
  <2>1. CASE i \in 1 .. s
    <3>1. i - 1 \in 0 .. s /\ i \in 0 .. s
        BY <1>1, <2>1
    <3>2. /\ st2[i] = st[i] /\ st2[i - 1] = st[i - 1] /\ w2[i] = w[i]
          /\ cnt2[i] = cnt[i] /\ cnt2[i - 1] = cnt[i - 1]
          /\ cnt[i] \in Nat /\ cnt[i - 1] \in Nat /\ cnt[i] <= cnt[s]
        BY <1>1, <1>2, <1>5, <2>1, <3>1
    <3>3. Follows(w, ms, st, cnt, i)
        BY <1>2, <2>1
    <3>4. Completes(st[i - 1], w[i]) => ms2[cnt[i]] = ms[cnt[i]]
      <4>1. Completes(st[i - 1], w[i]) => cnt[i] = cnt[i - 1] + 1
          BY <3>3 DEF Follows
      <4>2. Completes(st[i - 1], w[i]) => cnt[i] \in 1 .. cnt[s]
          BY <1>3, <3>2, <4>1
      <4>. QED  BY <4>2 DEF s
    <3>. QED  BY <3>2, <3>3, <3>4 DEF Follows
  <2>2. CASE i = s + 1
    <3>1. i - 1 = s /\ s \in 0 .. s
        BY <1>1, <2>2
    <3>2. /\ st2[i] = Scan(st[s], byte) /\ st2[i - 1] = st[s] /\ w2[i] = byte
          /\ cnt2[i] = cnt[s] + more /\ cnt2[i - 1] = cnt[s]
        BY <1>1, <1>5, <2>2, <3>1
    <3>3. ~st[s].started => byte \in Space \cup Opening
        BY DEF s
    <3>4. Completes(st[s], byte) => ms2[cnt[s] + 1] = <<s + 1 - st[s].size, s + 1>>
        BY Zenon DEF s
    <3>5. cnt[s] + 0 = cnt[s]
        BY <1>3
    <3>6. CASE Completes(st[s], byte)
      <4>0. cnt2[i] = cnt[s] + 1
          BY <3>2, <3>6
      <4>1. ms2[cnt2[i]] = <<i - st2[i - 1].size, i>>
        <5>1. ms2[cnt2[i]] = <<s + 1 - st[s].size, s + 1>>
            BY <3>4, <3>6, <4>0, Zenon
        <5>2. st2[i - 1].size = st[s].size
            BY <3>2, Zenon
        <5>3. i - st2[i - 1].size = s + 1 - st[s].size
          <6>1. st[s].size \in Nat
              BY <1>3 DEF CutState
          <6>. QED  BY <1>1, <2>2, <5>2, <6>1
        <5>. QED  BY <2>2, <5>1, <5>3, Zenon
      <4>2. cnt2[i] = cnt2[i - 1] + 1
          BY <3>2, <3>6
      <4>. QED  BY <3>2, <3>3, <3>6, <4>1, <4>2, Zenon DEF Follows
    <3>7. CASE ~Completes(st[s], byte)
      <4>1. cnt2[i] = cnt2[i - 1]
          BY <3>2, <3>5, <3>7
      <4>. QED  BY <3>2, <3>3, <3>7, <4>1, Zenon DEF Follows
    <3>. QED  BY <3>6, <3>7
  <2>. QED  BY <1>1, <2>1, <2>2
<1>8. Scanned(w2, ms2, st2, cnt2)
  <2>1. st2[0] = NoFrame /\ cnt2[0] = 0
      BY <1>2, <1>3, <1>5
  <2>. QED  BY <1>1, <1>5, <1>6, <1>7, <2>1 DEF Scanned
<1>9. OneMore(w, byte, ms2, st, cnt, st2, cnt2)
    BY <1>5, <1>8 DEF OneMore, s, w2
<1>. QED  BY <1>9

(* What a byte does to the framer's variables inside a JSON text.              *)
Becomes(c, byte, depth, inString, escaped) ==
    LET d == Scan(c, byte) IN
    /\ d.started /\ d.size = c.size + 1
    /\ d.depth = depth /\ (d.inString <=> inString) /\ (d.escaped <=> escaped)

LEMMA InStringSet ==
    ASSUME NEW c \in CutState, NEW b \in BOOLEAN, NEW d, d = [c EXCEPT !.inString = b]
    PROVE  /\ d \in CutState /\ d.depth = c.depth /\ d.started = c.started /\ d.size = c.size
           /\ (d.inString <=> b) /\ (d.escaped <=> c.escaped)
BY DEF CutState

LEMMA EscapedSet ==
    ASSUME NEW c \in CutState, NEW b \in BOOLEAN, NEW d, d = [c EXCEPT !.escaped = b]
    PROVE  /\ d \in CutState /\ d.depth = c.depth /\ d.started = c.started /\ d.size = c.size
           /\ (d.inString <=> c.inString) /\ (d.escaped <=> b)
BY DEF CutState

Taken(c, byte) == IF c.inString THEN InString(c, byte) ELSE OutOfString(c, byte)

LEMMA ScanOf ==
    ASSUME NEW c, Fair(c), c.started, NEW byte, Taken(c, byte) \in CutState,
           Taken(c, byte).started, Taken(c, byte).size = c.size, Taken(c, byte).depth >= 1
    PROVE  /\ Becomes(c, byte, Taken(c, byte).depth, Taken(c, byte).inString,
                      Taken(c, byte).escaped)
           /\ ~Completes(c, byte)
<1> DEFINE d == Taken(c, byte)
<1>1. Scan(c, byte) = IF d.depth = 0 THEN NoFrame ELSE [d EXCEPT !.size = @ + 1]
    BY DEF Scan, Taken
<1>2. d \in CutState /\ d.started /\ d.size = c.size /\ d.depth >= 1
    OBVIOUS
<1> HIDE DEF d
<1>3. d.depth # 0
    BY <1>2
<1>4. Scan(c, byte) = [d EXCEPT !.size = d.size + 1]
    BY <1>1, <1>3
<1> DEFINE n == d.size + 1
<1>n. n \in Nat
    BY <1>2 DEF CutState
<1> HIDE DEF n
<1>5. /\ Scan(c, byte).started = d.started /\ Scan(c, byte).depth = d.depth
      /\ (Scan(c, byte).inString <=> d.inString) /\ (Scan(c, byte).escaped <=> d.escaped)
      /\ Scan(c, byte).size = n
  <2>1. Scan(c, byte) = [d EXCEPT !.size = n]
      BY <1>4 DEF n
  <2>2. Scan(c, byte).started = d.started /\ Scan(c, byte).depth = d.depth
      BY <1>2, <2>1 DEF CutState
  <2>3. Scan(c, byte).inString = d.inString /\ Scan(c, byte).escaped = d.escaped
      BY <1>2, <2>1 DEF CutState
  <2>4. Scan(c, byte).size = n
      BY <1>2, <2>1 DEF CutState
  <2>. QED  BY <2>2, <2>3, <2>4
<1>6. Becomes(c, byte, d.depth, d.inString, d.escaped) /\ ~Completes(c, byte)
    BY <1>2, <1>5, Zenon DEF Becomes, Completes, n
<1>. QED  BY <1>6 DEF d

LEMMA OpeningSeen ==
    ASSUME NEW c, Fair(c), NEW b \in Opening, ~c.inString
    PROVE  /\ ~Completes(c, b)
           /\ ~c.started => /\ Scan(c, b).started /\ Scan(c, b).depth = 1 /\ Scan(c, b).size = 1
                            /\ ~Scan(c, b).inString /\ ~Scan(c, b).escaped
           /\ c.started => Becomes(c, b, c.depth + 1, FALSE, c.escaped)
<1>1. c \in CutState
    BY DEF Fair
<1>2. CASE ~c.started
  <2>1. Scan(c, b) = [c EXCEPT !.started = TRUE, !.depth = 1, !.size = 1] /\ c = NoFrame
      BY <1>2 DEF Scan, Fair
  <2>2. /\ Scan(c, b).started /\ Scan(c, b).depth = 1 /\ Scan(c, b).size = 1
        /\ Scan(c, b).inString = c.inString /\ Scan(c, b).escaped = c.escaped
      BY <1>1, <2>1, StartedSet, Zenon
  <2>. QED  BY <1>2, <2>1, <2>2 DEF NoFrame, Completes
<1>3. CASE c.started
  <2>1. b # Quote /\ c.depth >= 1 /\ c.depth + 1 \in Nat
      BY <1>1, <1>3, Characters DEF Fair, CutState
  <2>2. Taken(c, b) = [c EXCEPT !.depth = c.depth + 1]
      BY <2>1 DEF Taken, OutOfString
  <2>3. /\ Taken(c, b) \in CutState /\ Taken(c, b).depth = c.depth + 1
        /\ Taken(c, b).started = c.started /\ Taken(c, b).size = c.size
        /\ (Taken(c, b).inString <=> c.inString) /\ (Taken(c, b).escaped <=> c.escaped)
    <3>1. Taken(c, b) \in CutState
        BY <1>1, <2>1, <2>2, CutFields
    <3>. QED  BY <1>1, <2>1, <2>2, <3>1 DEF CutState
  <2>4. Taken(c, b).depth >= 1
      BY <1>1, <2>1, <2>3 DEF CutState
  <2>. QED  BY <1>3, <2>3, <2>4, ScanOf, Zenon DEF Becomes
<1>. QED  BY <1>2, <1>3

LEMMA ClosingSeen ==
    ASSUME NEW c, Fair(c), NEW b \in Opening, c.started, ~c.inString
    PROVE  /\ c.depth = 1 => Scan(c, Closing[b]) = NoFrame /\ Completes(c, Closing[b])
           /\ c.depth # 1 => /\ Becomes(c, Closing[b], c.depth - 1, FALSE, c.escaped)
                             /\ ~Completes(c, Closing[b])
<1> DEFINE byte == Closing[b]
<1>1. c \in CutState /\ c.depth \in Nat /\ c.depth >= 1
    BY DEF Fair, CutState
<1>2. byte \in Range(Closing) /\ byte # Quote /\ byte \notin Opening
    BY Characters
<1> HIDE DEF byte
<1>3. Taken(c, byte) = [c EXCEPT !.depth = c.depth - 1] /\ c.depth - 1 \in Nat
    BY <1>1, <1>2 DEF Taken, OutOfString
<1>4. /\ Taken(c, byte) \in CutState /\ Taken(c, byte).depth = c.depth - 1
      /\ Taken(c, byte).started = c.started /\ Taken(c, byte).size = c.size
      /\ (Taken(c, byte).inString <=> c.inString) /\ (Taken(c, byte).escaped <=> c.escaped)
  <2> DEFINE n == c.depth - 1
  <2>1. n \in Nat /\ Taken(c, byte) = [c EXCEPT !.depth = n]
      BY <1>3
  <2> HIDE DEF n
  <2>2. /\ Taken(c, byte) \in CutState /\ Taken(c, byte).depth = n
        /\ Taken(c, byte).started = c.started /\ Taken(c, byte).size = c.size
        /\ (Taken(c, byte).inString <=> c.inString) /\ (Taken(c, byte).escaped <=> c.escaped)
    <3>1. Taken(c, byte) \in CutState
        BY <1>1, <2>1, CutFields
    <3>. QED  BY <1>1, <2>1, <3>1 DEF CutState
  <2>. QED  BY <2>2 DEF n
<1>5. CASE c.depth = 1
  <2>1. Scan(c, byte) = IF Taken(c, byte).depth = 0 THEN NoFrame
                        ELSE [Taken(c, byte) EXCEPT !.size = @ + 1]
      BY DEF Scan, Taken
  <2>2. Scan(c, byte) = NoFrame
      BY <1>4, <1>5, <2>1
  <2>. QED  BY <1>5, <2>2 DEF Completes, NoFrame, byte
<1>6. CASE c.depth # 1
  <2>1. Taken(c, byte).depth >= 1
      BY <1>1, <1>4, <1>6
  <2>. QED  BY <1>4, <1>6, <2>1, ScanOf, Zenon DEF Becomes, byte
<1>. QED  BY <1>5, <1>6

(* A quotation mark outside a string, and one inside.                         *)
LEMMA QuoteSeen ==
    ASSUME NEW c, Fair(c), c.started, ~c.escaped
    PROVE  Becomes(c, Quote, c.depth, ~c.inString, FALSE) /\ ~Completes(c, Quote)
<1>1. c \in CutState /\ c.depth >= 1 /\ c.inString \in BOOLEAN
    BY DEF Fair, CutState
<1>4. /\ Taken(c, Quote) \in CutState /\ Taken(c, Quote).depth = c.depth
      /\ Taken(c, Quote).started = c.started /\ Taken(c, Quote).size = c.size
      /\ (Taken(c, Quote).inString <=> ~c.inString) /\ (Taken(c, Quote).escaped <=> c.escaped)
  <2>1. CASE c.inString
    <3>1. Taken(c, Quote) = [c EXCEPT !.inString = FALSE] /\ FALSE \in BOOLEAN
        BY <2>1, Characters DEF Taken, InString
    <3>. QED  BY <1>1, <2>1, <3>1, InStringSet, Zenon
  <2>2. CASE ~c.inString
    <3>1. Taken(c, Quote) = [c EXCEPT !.inString = TRUE] /\ TRUE \in BOOLEAN
        BY <2>2, Characters DEF Taken, OutOfString
    <3>. QED  BY <1>1, <2>2, <3>1, InStringSet, Zenon
  <2>. QED  BY <2>1, <2>2
<1>5. Taken(c, Quote).depth >= 1
    BY <1>1, <1>4
<1>. QED  BY <1>4, <1>5, ScanOf, Zenon DEF Becomes

(* Any other character, of a string or between two tokens.                    *)
LEMMA PlainSeen ==
    ASSUME NEW c, Fair(c), c.started, ~c.escaped, NEW byte, byte # Quote,
           IF c.inString THEN byte # Backslash ELSE byte \notin Opening \cup Range(Closing)
    PROVE  Becomes(c, byte, c.depth, c.inString, FALSE) /\ ~Completes(c, byte)
<1>1. c \in CutState /\ c.depth >= 1 /\ c.escaped \in BOOLEAN
    BY DEF Fair, CutState
<1>2. Taken(c, byte) = c
    BY DEF Taken, InString, OutOfString
<1>. QED  BY <1>1, <1>2, ScanOf, Zenon DEF Becomes

(* A backslash in a string, and what it escapes.                              *)
LEMMA BackslashSeen ==
    ASSUME NEW c, Fair(c), c.started, c.inString
    PROVE  /\ ~c.escaped => /\ Becomes(c, Backslash, c.depth, TRUE, TRUE)
                            /\ ~Completes(c, Backslash)
           /\ c.escaped => \A byte : /\ Becomes(c, byte, c.depth, TRUE, FALSE)
                                     /\ ~Completes(c, byte)
<1>1. c \in CutState /\ c.depth >= 1
    BY DEF Fair
<1>2. CASE ~c.escaped
  <2>1. Taken(c, Backslash) = [c EXCEPT !.escaped = TRUE]
      BY <1>2 DEF Taken, InString
  <2>2. /\ Taken(c, Backslash) \in CutState /\ Taken(c, Backslash).depth = c.depth
        /\ Taken(c, Backslash).started = c.started /\ Taken(c, Backslash).size = c.size
        /\ (Taken(c, Backslash).inString <=> c.inString) /\ (Taken(c, Backslash).escaped <=> TRUE)
      BY <1>1, <2>1, EscapedSet, Zenon
  <2>3. Taken(c, Backslash).depth >= 1
      BY <1>1, <2>2
  <2>. QED  BY <1>2, <2>2, <2>3, ScanOf, Zenon DEF Becomes
<1>3. CASE c.escaped
  <2> SUFFICES ASSUME NEW byte
               PROVE  Becomes(c, byte, c.depth, TRUE, FALSE) /\ ~Completes(c, byte)
      BY <1>3
  <2>1. Taken(c, byte) = [c EXCEPT !.escaped = FALSE]
      BY <1>3 DEF Taken, InString
  <2>2. /\ Taken(c, byte) \in CutState /\ Taken(c, byte).depth = c.depth
        /\ Taken(c, byte).started = c.started /\ Taken(c, byte).size = c.size
        /\ (Taken(c, byte).inString <=> c.inString) /\ (Taken(c, byte).escaped <=> FALSE)
      BY <1>1, <2>1, EscapedSet, Zenon
  <2>3. Taken(c, byte).depth >= 1
      BY <1>1, <2>2
  <2>. QED  BY <2>2, <2>3, ScanOf, Zenon DEF Becomes
<1>. QED  BY <1>2, <1>3

(* The peer and the framer stay in step, byte by byte.                         *)
LEMMA StaysInStep ==
    ASSUME NEW ms, NEW len \in Nat, NEW c, Fair(c), NEW n, Began(ms, len, c, n),
           NEW byte, NEW o2, o2 # << >>, NEW depth, NEW inString,
           Becomes(c, byte, depth, inString, FALSE),
           inString <=> Head(o2) = Quote,
           depth = Len(o2) - (IF Head(o2) = Quote THEN 1 ELSE 0),
           \A i \in 2 .. Len(o2) : o2[i] # Quote
    PROVE  InStep(o2, ms, len + 1, Scan(c, byte), n)
<1> DEFINE d == Scan(c, byte)  size == c.size
<1>1. size \in Nat
    BY DEF Fair, CutState
<1>2. /\ d.started /\ d.size = size + 1 /\ d.depth = depth
      /\ (d.inString <=> inString) /\ ~d.escaped
    BY Zenon DEF Becomes
<1>3. n + 1 = Len(ms) /\ ms[n + 1] = <<len - size + 1, 0>>
    BY Zenon DEF Began
<1> HIDE DEF d, size
<1>4. (len + 1) - d.size + 1 = len - size + 1
    BY <1>1, <1>2
<1>5. ms[n + 1] = <<(len + 1) - d.size + 1, 0>>
    BY <1>3, <1>4, Zenon
<1>6. d.depth = Len(o2) - (IF Head(o2) = Quote THEN 1 ELSE 0)
    BY <1>2, Zenon
<1>7. d.inString <=> Head(o2) = Quote
    BY <1>2, Zenon
<1>8. InStep(o2, ms, len + 1, d, n)
  <2>1. d.inString <=> Head(o2) = Quote
      BY <1>7
  <2>2. n + 1 = Len(ms) /\ ms[n + 1] = <<(len + 1) - d.size + 1, 0>> /\ ~d.escaped
      BY <1>2, <1>3, <1>5, Zenon
  <2>3. \A i \in 2 .. Len(o2) : o2[i] # Quote
      OBVIOUS
  <2>4. Inside(o2, ms, len + 1, d, n)
      BY <1>6, <2>1, <2>2, <2>3, Zenon DEF Inside, Began
  <2>. QED  BY <1>2, <2>4 DEF InStep
<1>. QED  BY <1>8 DEF d

LEMMA TailIs ==
    ASSUME NEW S, NEW s \in Seq(S), s # << >>
    PROVE  /\ Head(s) \in S /\ Head(s) = s[1] /\ Len(s) \in Nat /\ Len(s) >= 1
           /\ Tail(s) \in Seq(S) /\ Len(Tail(s)) = Len(s) - 1
           /\ \A i \in 1 .. Len(Tail(s)) : Tail(s)[i] = s[i + 1]
           /\ Tail(s) = << >> <=> Len(s) = 1
<1>1. /\ Head(s) \in S /\ Tail(s) \in Seq(S) /\ Len(Tail(s)) = Len(s) - 1
      /\ \A i \in 1 .. Len(Tail(s)) : Tail(s)[i] = s[i + 1]
    BY HeadTailProperties
<1>2. Len(s) \in Nat /\ Len(s) >= 1 /\ Head(s) = s[1]
    BY EmptySeq
<1>3. Tail(s) # << >> => Len(Tail(s)) \in Nat \ {0}
    BY <1>1, EmptySeq
<1>4. Tail(s) = << >> => Len(Tail(s)) = 0
    BY EmptySeq, Zenon
<1>. QED  BY <1>1, <1>2, <1>3, <1>4

Opened(o, ms, len) == IF o = << >> THEN Append(ms, <<len + 1, 0>>) ELSE ms

LEMMA BracketInStep ==
    ASSUME NEW o \in Seq(Opening \cup {Quote}), NEW ms \in Seq(Nat \X Nat), NEW len \in Nat,
           NEW c, Fair(c), NEW n \in Nat, InStep(o, ms, len, c, n),
           o = << >> \/ Head(o) # Quote, NEW b \in Opening
    PROVE  /\ ~Completes(c, b) /\ \A j \in 1 .. n : Opened(o, ms, len)[j] = ms[j]
           /\ InStep(<<b>> \o o, Opened(o, ms, len), len + 1, Scan(c, b), n)
<1> DEFINE o2 == <<b>> \o o
<1>1. b # Quote
    BY Characters
<1>2. /\ o2 # << >> /\ Head(o2) = b /\ Len(o) \in Nat /\ Len(o2) = Len(o) + 1
      /\ \A i \in 2 .. Len(o) + 1 : o2[i] = o[i - 1]
  <2>1. <<b>> \in Seq(Opening \cup {Quote})
      OBVIOUS
  <2>. QED  BY <2>1
<1> HIDE DEF o2
<1>3. CASE o = << >>
  <2> DEFINE ms2 == Append(ms, <<len + 1, 0>>)
  <2>1. ~c.started /\ n = Len(ms) /\ c = NoFrame
      BY <1>3 DEF InStep, Fair
  <2>2. <<len + 1, 0>> \in Nat \X Nat
      OBVIOUS
  <2>3. /\ Len(ms2) = n + 1 /\ ms2[n + 1] = <<len + 1, 0>> /\ \A j \in 1 .. n : ms2[j] = ms[j]
      BY <2>1, <2>2
  <2> HIDE DEF ms2
  <2>4. ~c.inString
      BY <2>1 DEF NoFrame
  <2> DEFINE d == Scan(c, b)
  <2>5. ~Completes(c, b) /\ d.started /\ d.depth = 1 /\ d.size = 1 /\ ~d.inString /\ ~d.escaped
      BY <2>1, <2>4, OpeningSeen
  <2> HIDE DEF d
  <2>6. (len + 1) - d.size + 1 = len + 1
      BY <2>5
  <2>7. Len(o2) = 1 /\ d.depth = Len(o2) - 0
      BY <1>2, <1>3, <2>5
  <2>8. \A i \in 2 .. Len(o2) : o2[i] # Quote
      BY <2>7
  <2>9. InStep(o2, ms2, len + 1, d, n)
      BY <1>1, <1>2, <2>3, <2>5, <2>6, <2>7, <2>8 DEF InStep, Inside, Began
  <2>10. Opened(o, ms, len) = ms2
      BY <1>3 DEF Opened, ms2
  <2>. QED  BY <2>3, <2>5, <2>9, <2>10 DEF d, o2
<1>4. CASE o # << >>
  <2>1. /\ c.started /\ ~c.inString /\ ~c.escaped /\ c.depth = Len(o) - 0
        /\ \A i \in 2 .. Len(o) : o[i] # Quote
      BY <1>4 DEF InStep, Inside, Began
  <2>2. ~Completes(c, b) /\ Becomes(c, b, c.depth + 1, FALSE, c.escaped)
      BY <2>1, OpeningSeen
  <2>3. Becomes(c, b, c.depth + 1, FALSE, FALSE)
      BY <2>1, <2>2, Zenon DEF Becomes
  <2>4. c.depth + 1 = Len(o2) - (IF Head(o2) = Quote THEN 1 ELSE 0)
      BY <1>1, <1>2, <2>1
  <2>5. \A i \in 2 .. Len(o2) : o2[i] # Quote
    <3> SUFFICES ASSUME NEW i \in 2 .. Len(o2) PROVE o2[i] # Quote
        OBVIOUS
    <3>1. o2[i] = o[i - 1] /\ (i - 1 = 1 \/ i - 1 \in 2 .. Len(o))
        BY <1>2
    <3>2. o[1] = Head(o)
        BY <1>4
    <3>. QED  BY <1>4, <2>1, <3>1, <3>2
  <2>6. FALSE <=> Head(o2) = Quote
      BY <1>1, <1>2
  <2>7. InStep(o2, ms, len + 1, Scan(c, b), n)
    <3>1. Began(ms, len, c, n)
        BY <1>4 DEF InStep, Inside
    <3>. QED  BY <1>2, <2>3, <2>4, <2>5, <2>6, <3>1, StaysInStep, Zenon
  <2>8. Opened(o, ms, len) = ms
      BY <1>4 DEF Opened
  <2>. QED  BY <2>2, <2>7, <2>8 DEF o2
<1>. QED  BY <1>3, <1>4

(* The innermost bracket is closed: the message goes on, or it ends here.       *)
OnlyOne(o) == Tail(o) = << >>

Finished(ms, last) == [ms EXCEPT ![Len(ms)] = <<@[1], last>>]

LEMMA LastClosing ==
    ASSUME NEW o \in Seq(Opening \cup {Quote}), NEW ms \in Seq(Nat \X Nat), NEW len \in Nat,
           NEW c, Fair(c), NEW n \in Nat, InStep(o, ms, len, c, n),
           o # << >>, Head(o) # Quote, OnlyOne(o)
    PROVE  /\ \A j \in 1 .. n : Finished(ms, len + 1)[j] = ms[j]
           /\ Completes(c, Closing[Head(o)])
           /\ Finished(ms, len + 1)[n + 1] = <<len + 1 - c.size, len + 1>>
           /\ InStep(Tail(o), Finished(ms, len + 1), len + 1, Scan(c, Closing[Head(o)]), n + 1)
<1> DEFINE b   == Closing[Head(o)]
           ms2 == [ms EXCEPT ![Len(ms)] = <<@[1], len + 1>>]
<1>1. /\ Head(o) \in Opening /\ c.started /\ ~c.inString /\ c.depth = Len(o) /\ c.size \in Nat
      /\ n + 1 = Len(ms) /\ ms[n + 1] = <<len - c.size + 1, 0>>
  <2>1. Head(o) \in Opening \cup {Quote} /\ Len(o) \in Nat
      BY TailIs
  <2>2. /\ c.started /\ ~c.inString /\ c.depth = Len(o) - 0
        /\ n + 1 = Len(ms) /\ ms[n + 1] = <<len - c.size + 1, 0>>
      BY DEF InStep, Inside, Began
  <2>3. c.size \in Nat
      BY DEF Fair, CutState
  <2>. QED  BY <2>1, <2>2, <2>3
<1>2. c.depth = 1
    BY <1>1, TailIs DEF OnlyOne
<1>3. Scan(c, b) = NoFrame /\ Completes(c, b)
    BY <1>1, <1>2, ClosingSeen, Zenon
<1>4. /\ Len(ms2) = n + 1 /\ ms2[n + 1] = <<ms[n + 1][1], len + 1>>
      /\ \A j \in 1 .. n : ms2[j] = ms[j]
  <2> DEFINE k == Len(ms)  m == <<ms[k][1], len + 1>>
  <2>1. k \in 1 .. Len(ms) /\ k = n + 1
      BY <1>1
  <2>2. m \in Nat \X Nat
    <3>1. ms[k] \in Nat \X Nat
        BY <2>1, ItemOf, Zenon
    <3> HIDE DEF k
    <3>. QED  BY <3>1
  <2>3. ms2 = [ms EXCEPT ![k] = m]
      OBVIOUS
  <2> HIDE DEF m, ms2, k
  <2>4. Len(ms2) = Len(ms) /\ ms2[k] = m /\ \A j \in 1 .. Len(ms) : j # k => ms2[j] = ms[j]
      BY <2>1, <2>2, <2>3, ExceptSeq
  <2>5. m = <<ms[n + 1][1], len + 1>> /\ ms2[n + 1] = m
      BY <2>1, <2>4, Zenon DEF m
  <2>6. Len(ms2) = n + 1 /\ \A j \in 1 .. n : ms2[j] = ms[j]
      BY <1>1, <2>1, <2>4
  <2>. QED  BY <2>5, <2>6
<1>5. ms[n + 1][1] = len + 1 - c.size
  <2>1. ms[n + 1][1] = len - c.size + 1
      BY <1>1
  <2>2. \A i \in Nat : len - i + 1 = len + 1 - i
      OBVIOUS
  <2>. QED  BY <1>1, <2>1, <2>2, Zenon
<1> HIDE DEF ms2, b
<1>6. InStep(Tail(o), ms2, len + 1, Scan(c, b), n + 1)
    BY <1>3, <1>4 DEF InStep, NoFrame, OnlyOne
<1>7. ms2[n + 1] = <<len + 1 - c.size, len + 1>>
    BY <1>4, <1>5
<1>8. ms2 = Finished(ms, len + 1)
    BY DEF ms2, Finished
<1>. QED  BY <1>3, <1>4, <1>6, <1>7, <1>8 DEF b

LEMMA InnerClosing ==
    ASSUME NEW o \in Seq(Opening \cup {Quote}), NEW ms, NEW len \in Nat,
           NEW c, Fair(c), NEW n \in Nat, InStep(o, ms, len, c, n),
           o # << >>, Head(o) # Quote, Tail(o) # << >>
    PROVE  /\ ~Completes(c, Closing[Head(o)])
           /\ InStep(Tail(o), ms, len + 1, Scan(c, Closing[Head(o)]), n)
<1> DEFINE b == Closing[Head(o)]  o2 == Tail(o)
<1>1. /\ Head(o) \in Opening /\ c.started /\ ~c.inString /\ ~c.escaped /\ c.depth = Len(o)
      /\ \A i \in 2 .. Len(o) : o[i] # Quote
  <2>1. Head(o) \in Opening \cup {Quote} /\ Len(o) \in Nat
      BY TailIs
  <2>2. /\ c.started /\ ~c.inString /\ ~c.escaped /\ c.depth = Len(o) - 0
        /\ \A i \in 2 .. Len(o) : o[i] # Quote
      BY DEF InStep, Inside, Began
  <2>. QED  BY <2>1, <2>2
<1>2. /\ Len(o) \in Nat /\ Len(o2) = Len(o) - 1 /\ \A i \in 1 .. Len(o2) : o2[i] = o[i + 1]
      /\ o2 \in Seq(Opening \cup {Quote}) /\ Len(o) # 1
    BY TailIs
<1>3. ~Completes(c, b) /\ Becomes(c, b, c.depth - 1, FALSE, c.escaped)
  <2>1. c.depth # 1
      BY <1>1, <1>2
  <2>. QED  BY <1>1, <2>1, ClosingSeen, Zenon
<1>4. Becomes(c, b, c.depth - 1, FALSE, FALSE)
    BY <1>1, <1>3, Zenon DEF Becomes
<1>5. o2 # << >>
    OBVIOUS
<1> HIDE DEF b, o2
<1>6. Head(o2) = o2[1] /\ Len(o2) >= 1
    BY <1>2, <1>5, TailIs, Zenon
<1>7. \A i \in 1 .. Len(o2) : o2[i] # Quote
    BY <1>1, <1>2
<1>8. Head(o2) # Quote
    BY <1>2, <1>6, <1>7
<1>9. c.depth - 1 = Len(o2) - (IF Head(o2) = Quote THEN 1 ELSE 0)
    BY <1>1, <1>2, <1>8
<1>10. \A i \in 2 .. Len(o2) : o2[i] # Quote
    BY <1>2, <1>7
<1>11. InStep(o2, ms, len + 1, Scan(c, b), n)
  <2>1. FALSE <=> Head(o2) = Quote
      BY <1>8
  <2>2. Began(ms, len, c, n)
      BY DEF InStep, Inside
  <2>. QED  BY <1>4, <1>5, <1>9, <1>10, <2>1, <2>2, StaysInStep, Zenon
<1>. QED  BY <1>3, <1>11 DEF b, o2


(* A quotation mark opens a string, or ends it.                               *)
LEMMA StringOpens ==
    ASSUME NEW o \in Seq(Opening \cup {Quote}), NEW ms, NEW len \in Nat,
           NEW c, Fair(c), NEW n \in Nat, InStep(o, ms, len, c, n),
           o # << >>, Head(o) # Quote
    PROVE  ~Completes(c, Quote) /\ InStep(<<Quote>> \o o, ms, len + 1, Scan(c, Quote), n)
<1> DEFINE o2 == <<Quote>> \o o
<1>1. /\ o2 # << >> /\ Head(o2) = Quote /\ Len(o) \in Nat /\ Len(o2) = Len(o) + 1
      /\ \A i \in 2 .. Len(o) + 1 : o2[i] = o[i - 1]
  <2>1. <<Quote>> \in Seq(Opening \cup {Quote})
      OBVIOUS
  <2>. QED  BY <2>1
<1> HIDE DEF o2
<1>2. /\ c.started /\ ~c.inString /\ ~c.escaped /\ c.depth = Len(o) - 0
      /\ \A i \in 2 .. Len(o) : o[i] # Quote
    BY DEF InStep, Inside
<1>3. ~Completes(c, Quote) /\ Becomes(c, Quote, c.depth, ~c.inString, FALSE)
    BY <1>2, QuoteSeen, Zenon
<1>4. Becomes(c, Quote, c.depth, TRUE, FALSE)
    BY <1>2, <1>3, Zenon DEF Becomes
<1>5. TRUE <=> Head(o2) = Quote
    BY <1>1
<1>6. c.depth = Len(o2) - (IF Head(o2) = Quote THEN 1 ELSE 0)
    BY <1>1, <1>2
<1>7. \A i \in 2 .. Len(o2) : o2[i] # Quote
  <2> SUFFICES ASSUME NEW i \in 2 .. Len(o2) PROVE o2[i] # Quote
      OBVIOUS
  <2>1. o2[i] = o[i - 1] /\ (i - 1 = 1 \/ i - 1 \in 2 .. Len(o))
      BY <1>1
  <2>2. o[1] = Head(o)
      OBVIOUS
  <2>. QED  BY <1>2, <2>1, <2>2
<1>8. Began(ms, len, c, n)
    BY DEF InStep, Inside
<1>9. InStep(o2, ms, len + 1, Scan(c, Quote), n)
    BY <1>1, <1>4, <1>5, <1>6, <1>7, <1>8, StaysInStep, Zenon
<1>. QED  BY <1>3, <1>9 DEF o2

LEMMA StringEnds ==
    ASSUME NEW o \in Seq(Opening \cup {Quote}), NEW ms, NEW len \in Nat,
           NEW c, Fair(c), NEW n \in Nat, InStep(o, ms, len, c, n),
           o # << >>, Head(o) = Quote
    PROVE  ~Completes(c, Quote) /\ InStep(Tail(o), ms, len + 1, Scan(c, Quote), n)
<1> DEFINE o2 == Tail(o)
<1>1. /\ c.started /\ c.inString /\ ~c.escaped /\ c.depth = Len(o) - 1
      /\ \A i \in 2 .. Len(o) : o[i] # Quote
    BY DEF InStep, Inside
<1>2. c.depth >= 1
    BY <1>1 DEF Fair
<1>3. /\ Len(o) \in Nat /\ Len(o2) = Len(o) - 1 /\ \A i \in 1 .. Len(o2) : o2[i] = o[i + 1]
      /\ o2 \in Seq(Opening \cup {Quote}) /\ (o2 = << >> <=> Len(o) = 1)
    BY TailIs
<1> HIDE DEF o2
<1>4. o2 # << >>
    BY <1>1, <1>2, <1>3
<1>5. Head(o2) = o2[1] /\ Len(o2) >= 1 /\ Len(o2) \in Nat
    BY <1>3, <1>4, TailIs, Zenon
<1>6. \A i \in 1 .. Len(o2) : o2[i] # Quote
    BY <1>1, <1>3
<1>7. Head(o2) # Quote
    BY <1>5, <1>6
<1>8. ~Completes(c, Quote) /\ Becomes(c, Quote, c.depth, ~c.inString, FALSE)
    BY <1>1, QuoteSeen, Zenon
<1>9. Becomes(c, Quote, c.depth, FALSE, FALSE)
    BY <1>1, <1>8, Zenon DEF Becomes
<1>10. FALSE <=> Head(o2) = Quote
    BY <1>7
<1>11. c.depth = Len(o2) - (IF Head(o2) = Quote THEN 1 ELSE 0)
    BY <1>1, <1>3, <1>7
<1>12. \A i \in 2 .. Len(o2) : o2[i] # Quote
    BY <1>5, <1>6
<1>13. Began(ms, len, c, n)
    BY DEF InStep, Inside
<1>14. InStep(o2, ms, len + 1, Scan(c, Quote), n)
    BY <1>4, <1>9, <1>10, <1>11, <1>12, <1>13, StaysInStep, Zenon
<1>. QED  BY <1>8, <1>14 DEF o2

(* A byte that changes nothing: of a string, or between two tokens.            *)
LEMMA PlainInStep ==
    ASSUME NEW o, NEW ms, NEW len \in Nat,
           NEW c, Fair(c), NEW n, InStep(o, ms, len, c, n), o # << >>,
           NEW byte, byte # Quote,
           IF Head(o) = Quote THEN byte # Backslash ELSE byte \notin Opening \cup Range(Closing)
    PROVE  ~Completes(c, byte) /\ InStep(o, ms, len + 1, Scan(c, byte), n)
<1>1. /\ c.started /\ ~c.escaped /\ (c.inString <=> Head(o) = Quote)
      /\ c.depth = Len(o) - (IF Head(o) = Quote THEN 1 ELSE 0)
      /\ (\A i \in 2 .. Len(o) : o[i] # Quote) /\ Began(ms, len, c, n)
    BY Zenon DEF InStep, Inside
<1>2. IF c.inString THEN byte # Backslash ELSE byte \notin Opening \cup Range(Closing)
    BY <1>1
<1>3. Becomes(c, byte, c.depth, c.inString, FALSE) /\ ~Completes(c, byte)
    BY <1>1, <1>2, PlainSeen, Zenon
<1>4. CASE Head(o) = Quote
  <2>1. Becomes(c, byte, c.depth, TRUE, FALSE) /\ (TRUE <=> Head(o) = Quote)
      BY <1>1, <1>3, <1>4, Zenon DEF Becomes
  <2>2. InStep(o, ms, len + 1, Scan(c, byte), n)
      BY <1>1, <2>1, StaysInStep, Zenon
  <2>. QED  BY <1>3, <2>2
<1>5. CASE Head(o) # Quote
  <2>1. Becomes(c, byte, c.depth, FALSE, FALSE) /\ (FALSE <=> Head(o) = Quote)
      BY <1>1, <1>3, <1>5, Zenon DEF Becomes
  <2>2. InStep(o, ms, len + 1, Scan(c, byte), n)
      BY <1>1, <2>1, StaysInStep, Zenon
  <2>. QED  BY <1>3, <2>2
<1>. QED  BY <1>4, <1>5

LEMMA EscapedInStep ==
    ASSUME NEW o, NEW ms, NEW len \in Nat,
           NEW c, Fair(c), NEW n, InStep(o, ms, len, c, n), o # << >>, Head(o) = Quote,
           NEW byte
    PROVE  LET d == Scan(c, Backslash) IN
           /\ ~Completes(c, Backslash) /\ d.started /\ ~Completes(d, byte)
           /\ InStep(o, ms, (len + 1) + 1, Scan(d, byte), n)
<1> DEFINE d == Scan(c, Backslash)
<1>1. /\ c.started /\ ~c.escaped /\ c.inString
      /\ c.depth = Len(o) - (IF Head(o) = Quote THEN 1 ELSE 0)
      /\ (\A i \in 2 .. Len(o) : o[i] # Quote) /\ Began(ms, len, c, n)
    BY Zenon DEF InStep, Inside
<1>2. Becomes(c, Backslash, c.depth, TRUE, TRUE) /\ ~Completes(c, Backslash)
    BY <1>1, BackslashSeen, Zenon
<1>3. d.started /\ d.size = c.size + 1 /\ d.depth = c.depth /\ d.inString /\ d.escaped
    BY <1>2, Zenon DEF Becomes
<1>4. Fair(d)
    BY ScanFair, Zenon
<1> HIDE DEF d
<1>5. Becomes(d, byte, d.depth, TRUE, FALSE) /\ ~Completes(d, byte)
    BY <1>3, <1>4, BackslashSeen, Zenon
<1>6. Began(ms, len + 1, d, n)
  <2>1. c.size \in Nat
      BY DEF Fair, CutState
  <2>2. \A i \in Nat : (len + 1) - (i + 1) + 1 = len - i + 1
      OBVIOUS
  <2>. QED  BY <1>1, <1>3, <2>1, <2>2, Zenon DEF Began
<1>7. TRUE <=> Head(o) = Quote
    OBVIOUS
<1>8. d.depth = Len(o) - (IF Head(o) = Quote THEN 1 ELSE 0)
    BY <1>1, <1>3, Zenon
<1>9. len + 1 \in Nat
    OBVIOUS
<1>10. InStep(o, ms, (len + 1) + 1, Scan(d, byte), n)
    BY <1>1, <1>4, <1>5, <1>6, <1>7, <1>8, <1>9, StaysInStep, Zenon
<1>. QED  BY <1>2, <1>3, <1>5, <1>10 DEF d


-----------------------------------------------------------------------------
(* The peer of a JSON framer: the stream grows, and what is known of it stays.  *)
LEMMA TrackedNext ==
    ASSUME TypeInv, NEW st, NEW cnt, Tracked(st, cnt),
           NEW st2, NEW cnt2, Scanned(WillSend', msgs', st2, cnt2),
           \A i \in 0 .. Len(WillSend) : st2[i] = st[i] /\ cnt2[i] = cnt[i],
           \A j \in 1 .. cnt[Len(WillSend)] : msgs'[j] = msgs[j],
           Len(WillSend') \in Nat, Len(WillSend) <= Len(WillSend'),
           InStep(open', msgs', Len(WillSend'), st2[Len(WillSend')], cnt2[Len(WillSend')]),
           UNCHANGED <<at, framer>>
    PROVE  JsonInv'
<1> DEFINE len == Len(WillSend)  len2 == Len(WillSend')
<1>1. /\ len \in Nat /\ pos \in 0 .. len /\ Len(frames) \in Nat
      /\ at' = at /\ cut' = cut /\ pos' = pos /\ frames' = frames
    BY StreamIs DEF TypeInv, TypeOK, framer
<1>2. /\ Scanned(WillSend, msgs, st, cnt)
      /\ Len(frames) <= cnt[len] /\ \A i \in 1 .. Len(frames) : frames[i] = msgs[i]
      /\ at \notin Ended => cut = st[pos] /\ Len(frames) = cnt[pos]
    BY Zenon DEF Tracked
<1>3. cnt[len] \in Nat /\ cnt2[len] <= cnt2[len2] /\ cnt2[len2] \in Nat
  <2>1. cnt \in [0 .. len -> Nat]
      BY <1>2, Zenon DEF Scanned
  <2>2. cnt2 \in [0 .. len2 -> Nat] /\ \A i \in 0 .. len2 : cnt2[i] <= cnt2[len2]
      BY Zenon DEF Scanned
  <2> HIDE DEF len, len2
  <2>3. len \in 0 .. len /\ len \in 0 .. len2 /\ len2 \in 0 .. len2
      BY <1>1 DEF len, len2
  <2>. QED  BY <2>1, <2>2, <2>3
<1> HIDE DEF len, len2
<1>4. Len(frames') <= cnt2[len2] /\ \A i \in 1 .. Len(frames') : frames'[i] = msgs'[i]
  <2>1. cnt2[len] = cnt[len]
      BY <1>1 DEF len
  <2>2. \A j \in 1 .. cnt[len] : msgs'[j] = msgs[j]
      BY DEF len
  <2>3. Len(frames) <= cnt2[len2]
      BY <1>1, <1>2, <1>3, <2>1
  <2>4. \A i \in 1 .. Len(frames) : frames[i] = msgs'[i]
      BY <1>1, <1>2, <1>3, <2>2
  <2>. QED  BY <1>1, <2>3, <2>4
<1>5. at' \notin Ended => cut' = st2[pos'] /\ Len(frames') = cnt2[pos']
    BY <1>1, <1>2 DEF len
<1>6. Tracked(st2, cnt2)'
    BY <1>4, <1>5, Zenon DEF Tracked, len2
<1>. QED  BY <1>6 DEF JsonInv

LEMMA EmitsByte ==
    ASSUME TypeInv, NEW st, NEW cnt, Tracked(st, cnt), NEW byte \in Byte, Emit(<<byte>>),
           ~st[Len(WillSend)].started => byte \in Space \cup Opening,
           \A j \in 1 .. cnt[Len(WillSend)] : msgs'[j] = msgs[j],
           Completes(st[Len(WillSend)], byte) =>
               msgs'[cnt[Len(WillSend)] + 1]
                   = <<Len(WillSend) + 1 - st[Len(WillSend)].size, Len(WillSend) + 1>>,
           InStep(open', msgs', Len(WillSend) + 1, Scan(st[Len(WillSend)], byte),
                  cnt[Len(WillSend)] + (IF Completes(st[Len(WillSend)], byte) THEN 1 ELSE 0))
    PROVE  JsonInv'
<1>1. /\ unsent = << >> /\ unsent' = <<byte>> /\ UNCHANGED <<wire, at, framer>>
    BY DEF Emit, Speaks
<1>2. WillSend \in Seq(Byte) /\ WillSend' = Append(WillSend, byte)
  <2>1. unsent' \in Seq(Byte)
      BY <1>1
  <2>2. WillSend' = WillSend \o <<byte>>
      BY <1>1, <2>1, EmitAdds
  <2>3. WillSend \in Seq(Byte)
      BY StreamIs
  <2>. QED  BY <2>2, <2>3, AppendIsConcat
<1>3. Scanned(WillSend, msgs, st, cnt)
    BY Zenon DEF Tracked
<1>4. PICK st2, cnt2 : OneMore(WillSend, byte, msgs', st, cnt, st2, cnt2)
    BY <1>2, <1>3, ScanNext, Zenon
<1>5. Len(WillSend') = Len(WillSend) + 1 /\ Len(WillSend) \in Nat
    BY <1>2
<1>6. Len(WillSend') \in Nat /\ Len(WillSend) <= Len(WillSend')
    BY <1>5
<1>7. InStep(open', msgs', Len(WillSend'), st2[Len(WillSend')], cnt2[Len(WillSend')])
    BY <1>4, <1>5, Zenon DEF OneMore
<1>8. Scanned(WillSend', msgs', st2, cnt2)
    BY <1>2, <1>4, Zenon DEF OneMore
<1>9. /\ UNCHANGED <<at, framer>>
      /\ \A i \in 0 .. Len(WillSend) : st2[i] = st[i] /\ cnt2[i] = cnt[i]
    BY <1>1, <1>4 DEF OneMore
<1>10. \A j \in 1 .. cnt[Len(WillSend)] : msgs'[j] = msgs[j]
    OBVIOUS
<1>. QED  BY <1>6, <1>7, <1>8, <1>9, <1>10, TrackedNext


LEMMA LastSeen ==
    ASSUME TypeInv, NEW st, NEW cnt, Tracked(st, cnt)
    PROVE  LET len == Len(WillSend) IN
           /\ len \in Nat /\ len = Sent /\ Fair(st[len]) /\ cnt[len] \in Nat
           /\ cnt[len] + 0 = cnt[len] /\ InStep(open, msgs, len, st[len], cnt[len])
           /\ open \in Seq(Opening \cup {Quote}) /\ msgs \in Seq(Nat \X Nat)
<1> DEFINE len == Len(WillSend)
<1>1. len \in Nat /\ len = Sent /\ len \in 0 .. len
    BY StreamIs
<1>2. /\ cnt \in [0 .. len -> Nat] /\ \A i \in 0 .. len : Fair(st[i])
      /\ InStep(open, msgs, len, st[len], cnt[len])
    BY Zenon DEF Tracked, Scanned
<1> HIDE DEF len
<1>3. Fair(st[len]) /\ cnt[len] \in Nat
    BY <1>1, <1>2
<1>. QED  BY <1>1, <1>2, <1>3 DEF TypeInv, TypeOK, len

LEMMA BracketTracked == TypeInv /\ JsonInv /\ SendBracket => JsonInv'
<1> SUFFICES ASSUME TypeInv, JsonInv, SendBracket PROVE JsonInv'
    OBVIOUS
<1>1. PICK st, cnt : Tracked(st, cnt)
    BY DEF JsonInv
<1>2. PICK b \in Opening :
        /\ ~Quoting /\ Emit(<<b>>) /\ open' = <<b>> \o open
        /\ msgs' = IF open = << >> THEN Append(msgs, <<Sent + 1, 0>>) ELSE msgs
    BY DEF SendBracket
<1> DEFINE len == Len(WillSend)  c == st[len]  n == cnt[len]
<1>3. /\ len \in Nat /\ len = Sent /\ Fair(c) /\ n \in Nat /\ n + 0 = n
      /\ InStep(open, msgs, len, c, n)
      /\ open \in Seq(Opening \cup {Quote}) /\ msgs \in Seq(Nat \X Nat)
    BY <1>1, LastSeen
<1>4. msgs' = IF open = << >> THEN Append(msgs, <<len + 1, 0>>) ELSE msgs
    BY <1>2, <1>3
<1>5. open = << >> \/ Head(open) # Quote
    BY <1>2 DEF Quoting
<1>6. /\ ~Completes(c, b) /\ \A j \in 1 .. n : msgs'[j] = msgs[j]
      /\ InStep(open', msgs', len + 1, Scan(c, b), n)
  <2> HIDE DEF len, c, n
  <2>1. msgs' = Opened(open, msgs, len) /\ open' = <<b>> \o open
      BY <1>2, <1>4 DEF Opened
  <2>2. ~Completes(c, b) /\ \A j \in 1 .. n : Opened(open, msgs, len)[j] = msgs[j]
      BY <1>3, <1>5, BracketInStep
  <2>3. InStep(<<b>> \o open, Opened(open, msgs, len), len + 1, Scan(c, b), n)
      BY <1>3, <1>5, BracketInStep
  <2>. QED  BY <2>1, <2>2, <2>3
<1>7. InStep(open', msgs', len + 1, Scan(c, b), n + (IF Completes(c, b) THEN 1 ELSE 0))
  <2> HIDE DEF len, c, n
  <2>. QED  BY <1>3, <1>6
<1>8. b \in Byte /\ b \in Space \cup Opening
    BY DEF Byte, Opening
<1>. QED  BY <1>1, <1>2, <1>6, <1>7, <1>8, EmitsByte

LEMMA ClosingTracked == TypeInv /\ JsonInv /\ SendClosing => JsonInv'
<1> SUFFICES ASSUME TypeInv, JsonInv, SendClosing PROVE JsonInv'
    OBVIOUS
<1>1. PICK st, cnt : Tracked(st, cnt)
    BY DEF JsonInv
<1> DEFINE len == Len(WillSend)  c == st[len]  n == cnt[len]  b == Closing[Head(open)]
<1>2. /\ open # << >> /\ Head(open) # Quote /\ Emit(<<b>>) /\ open' = Tail(open)
      /\ msgs' = IF Len(open) = 1 THEN [msgs EXCEPT ![Len(msgs)] = <<@[1], Sent + 1>>] ELSE msgs
    BY DEF SendClosing, Quoting
<1>3. /\ len \in Nat /\ len = Sent /\ Fair(c) /\ n \in Nat /\ n + 0 = n
      /\ InStep(open, msgs, len, c, n)
      /\ open \in Seq(Opening \cup {Quote}) /\ msgs \in Seq(Nat \X Nat)
    BY <1>1, LastSeen
<1>4. /\ Head(open) \in Opening /\ (Tail(open) = << >> <=> Len(open) = 1)
    BY <1>2, <1>3, TailIs
<1>5. b \in Byte /\ c.started
  <2>1. b \in Byte
      BY <1>4, ClosingIs
  <2>2. c.started
      BY <1>2, <1>3 DEF InStep
  <2>. QED  BY <2>1, <2>2
<1> HIDE DEF b
<1>6. CASE Len(open) = 1
  <2>1. msgs' = [msgs EXCEPT ![Len(msgs)] = <<@[1], len + 1>>]
      BY <1>2, <1>3, <1>6
  <2>2. /\ \A j \in 1 .. n : msgs'[j] = msgs[j]
        /\ Completes(c, b) /\ msgs'[n + 1] = <<len + 1 - c.size, len + 1>>
        /\ InStep(open', msgs', len + 1, Scan(c, b), n + 1)
    <3> HIDE DEF len, c, n
    <3>1. open # << >> /\ Head(open) # Quote /\ OnlyOne(open)
        BY <1>2, <1>4, <1>6 DEF OnlyOne
    <3>2. msgs' = Finished(msgs, len + 1) /\ open' = Tail(open)
        BY <1>2, <2>1 DEF Finished
    <3>31. \A j \in 1 .. n : Finished(msgs, len + 1)[j] = msgs[j]
        BY <1>3, <3>1, LastClosing
    <3>32. Completes(c, Closing[Head(open)])
        BY <1>3, <3>1, LastClosing
    <3>33. Finished(msgs, len + 1)[n + 1] = <<len + 1 - c.size, len + 1>>
        BY <1>3, <3>1, LastClosing
    <3>34. InStep(Tail(open), Finished(msgs, len + 1), len + 1, Scan(c, Closing[Head(open)]), n + 1)
        BY <1>3, <3>1, LastClosing
    <3>. QED  BY <3>2, <3>31, <3>32, <3>33, <3>34, Zenon DEF b
  <2>3. InStep(open', msgs', len + 1, Scan(c, b), n + (IF Completes(c, b) THEN 1 ELSE 0))
      BY <2>2
  <2>. QED  BY <1>1, <1>2, <1>5, <2>2, <2>3, EmitsByte
<1>7. CASE Len(open) # 1
  <2>1. msgs' = msgs
      BY <1>2, <1>7
  <2>2. ~Completes(c, b) /\ InStep(open', msgs', len + 1, Scan(c, b), n)
    <3> HIDE DEF len, c, n
    <3>. QED  BY <1>2, <1>3, <1>4, <1>7, <2>1, InnerClosing DEF b
  <2>3. InStep(open', msgs', len + 1, Scan(c, b), n + (IF Completes(c, b) THEN 1 ELSE 0))
    <3> HIDE DEF len, c, n
    <3>. QED  BY <1>3, <2>2
  <2>4. \A j \in 1 .. n : msgs'[j] = msgs[j]
      BY <2>1
  <2>. QED  BY <1>1, <1>2, <1>5, <2>2, <2>3, <2>4, EmitsByte
<1>. QED  BY <1>6, <1>7

LEMMA QuoteTracked == TypeInv /\ JsonInv /\ SendQuote => JsonInv'
<1> SUFFICES ASSUME TypeInv, JsonInv, SendQuote PROVE JsonInv'
    OBVIOUS
<1>1. PICK st, cnt : Tracked(st, cnt)
    BY DEF JsonInv
<1>2. /\ open # << >> /\ Emit(<<Quote>>) /\ msgs' = msgs
      /\ open' = IF Head(open) = Quote THEN Tail(open) ELSE <<Quote>> \o open
    BY DEF SendQuote, Quoting
<1> DEFINE len == Len(WillSend)  c == st[len]  n == cnt[len]
<1>3. /\ len \in Nat /\ Fair(c) /\ n \in Nat /\ n + 0 = n
      /\ InStep(open, msgs, len, c, n) /\ open \in Seq(Opening \cup {Quote})
    BY <1>1, LastSeen
<1>4. c.started
    BY <1>2, <1>3 DEF InStep
<1>5. ~Completes(c, Quote) /\ InStep(open', msgs', len + 1, Scan(c, Quote), n)
  <2> HIDE DEF len, c, n
  <2>1. CASE Head(open) = Quote
      BY <1>2, <1>3, <2>1, StringEnds
  <2>2. CASE Head(open) # Quote
      BY <1>2, <1>3, <2>2, StringOpens
  <2>. QED  BY <2>1, <2>2
<1>6. InStep(open', msgs', len + 1, Scan(c, Quote), n + (IF Completes(c, Quote) THEN 1 ELSE 0))
  <2> HIDE DEF len, c, n
  <2>. QED  BY <1>3, <1>5
<1>7. Quote \in Byte /\ \A j \in 1 .. n : msgs'[j] = msgs[j]
    BY <1>2 DEF Quote, Byte
<1>. QED  BY <1>1, <1>2, <1>4, <1>5, <1>6, <1>7, EmitsByte

(* A character of a string that needs no backslash, and a token.               *)
LEMMA PlainTracked ==
    ASSUME TypeInv, JsonInv, NEW byte \in Byte, Emit(<<byte>>), UNCHANGED <<open, msgs>>,
           byte # Quote, open = << >> => byte \in Space \ Opening,
           open # << >> => IF Head(open) = Quote THEN byte # Backslash
                           ELSE byte \notin Opening \cup Range(Closing)
    PROVE  JsonInv'
<1>1. PICK st, cnt : Tracked(st, cnt)
    BY DEF JsonInv
<1> DEFINE len == Len(WillSend)  c == st[len]  n == cnt[len]
<1>2. /\ len \in Nat /\ Fair(c) /\ n \in Nat /\ n + 0 = n
      /\ InStep(open, msgs, len, c, n) /\ (c.started <=> open # << >>)
  <2>1. /\ len \in Nat /\ Fair(c) /\ n \in Nat /\ n + 0 = n
        /\ InStep(open, msgs, len, c, n)
      BY <1>1, LastSeen
  <2>. QED  BY <2>1 DEF InStep
<1>3. ~Completes(c, byte) /\ InStep(open, msgs, len + 1, Scan(c, byte), n)
  <2> HIDE DEF len, c, n
  <2>1. CASE open = << >>
    <3>1. Scan(c, byte) = c
        BY <1>2, <2>1 DEF Scan
    <3>. QED  BY <1>2, <2>1, <3>1 DEF InStep, Completes
  <2>2. CASE open # << >>
      BY <1>2, <2>2, PlainInStep
  <2>. QED  BY <2>1, <2>2
<1>4. InStep(open', msgs', len + 1, Scan(c, byte), n + (IF Completes(c, byte) THEN 1 ELSE 0))
  <2> HIDE DEF len, c, n
  <2>. QED  BY <1>2, <1>3
<1>5. \A j \in 1 .. n : msgs'[j] = msgs[j]
    OBVIOUS
<1>6. ~c.started => byte \in Space \cup Opening
    BY <1>2
<1>. QED  BY <1>1, <1>3, <1>4, <1>5, <1>6, EmitsByte

LEMMA TokenTracked == TypeInv /\ JsonInv /\ SendToken => JsonInv'
<1> SUFFICES ASSUME TypeInv, JsonInv, SendToken PROVE JsonInv'
    OBVIOUS
<1>1. Emit(<<32>>) /\ UNCHANGED <<open, msgs>> /\ (open # << >> => Head(open) # Quote)
    BY DEF SendToken, Quoting
<1>2. 32 \in Byte /\ 32 # Quote /\ 32 \in Space \ Opening /\ 32 \notin Opening \cup Range(Closing)
    BY Characters DEF Byte
<1>. QED  BY <1>1, <1>2, PlainTracked


(* A character of a string that needs one.                                    *)
LEMMA EscapedTracked ==
    ASSUME TypeInv, JsonInv, Quoting, NEW byte \in Byte, Emit(<<Backslash, byte>>),
           UNCHANGED <<open, msgs>>
    PROVE  JsonInv'
<1>1. PICK st, cnt : Tracked(st, cnt)
    BY DEF JsonInv
<1> DEFINE len == Len(WillSend)  c == st[len]  n == cnt[len]  w1 == Append(WillSend, Backslash)
<1>2. /\ len \in Nat /\ Fair(c) /\ n \in Nat /\ n + 0 = n /\ InStep(open, msgs, len, c, n)
    BY <1>1, LastSeen
<1>3. open # << >> /\ Head(open) = Quote
    BY DEF Quoting
<1>4. /\ ~Completes(c, Backslash) /\ Scan(c, Backslash).started
      /\ ~Completes(Scan(c, Backslash), byte)
      /\ InStep(open, msgs, (len + 1) + 1, Scan(Scan(c, Backslash), byte), n)
  <2> HIDE DEF len, c, n
  <2>. QED  BY <1>2, <1>3, EscapedInStep
<1>5. c.started /\ Backslash \in Byte
    BY <1>2, <1>3 DEF InStep, Backslash, Byte
<1>6. /\ unsent = << >> /\ unsent' = <<Backslash, byte>> /\ UNCHANGED <<wire, at, framer>>
      /\ UNCHANGED <<at, framer>>
    BY DEF Emit, Speaks
<1>7. /\ WillSend \in Seq(Byte) /\ w1 \in Seq(Byte) /\ Len(w1) = len + 1
      /\ WillSend' = Append(w1, byte) /\ Len(WillSend') = (len + 1) + 1
  <2>1. unsent' \in Seq(Byte)
      BY <1>5, <1>6
  <2>2. WillSend' = WillSend \o <<Backslash, byte>>
      BY <1>6, <2>1, EmitAdds
  <2>3. WillSend \in Seq(Byte)
      BY StreamIs
  <2> HIDE DEF c, n
  <2>. QED  BY <1>5, <2>2, <2>3
<1>8. PICK st1, cnt1 : OneMore(WillSend, Backslash, msgs, st, cnt, st1, cnt1)
  <2>1. Scanned(WillSend, msgs, st, cnt) /\ \A j \in 1 .. n : msgs[j] = msgs[j]
      BY <1>1, Zenon DEF Tracked
  <2>. QED  BY <1>4, <1>5, <1>7, <2>1, ScanNext, Zenon
<1>9. /\ Scanned(w1, msgs, st1, cnt1)
      /\ \A i \in 0 .. len : st1[i] = st[i] /\ cnt1[i] = cnt[i]
      /\ st1[Len(w1)] = Scan(c, Backslash) /\ cnt1[Len(w1)] = n
  <2>1. cnt1[len + 1] = n + 0
      BY <1>4, <1>8, Zenon DEF OneMore
  <2>. QED  BY <1>2, <1>7, <1>8, <2>1, Zenon DEF OneMore
<1> HIDE DEF w1, len, c, n
<1>10. PICK st2, cnt2 : OneMore(w1, byte, msgs, st1, cnt1, st2, cnt2)
  <2>1. \A j \in 1 .. cnt1[Len(w1)] : msgs[j] = msgs[j]
      OBVIOUS
  <2>2. st1[Len(w1)].started /\ ~Completes(st1[Len(w1)], byte)
      BY <1>4, <1>9, Zenon
  <2>. QED  BY <1>7, <1>9, <2>1, <2>2, ScanNext, Zenon
<1>11. /\ Scanned(WillSend', msgs', st2, cnt2)
       /\ st2[Len(WillSend')] = Scan(Scan(c, Backslash), byte) /\ cnt2[Len(WillSend')] = n
  <2>1. msgs' = msgs
      OBVIOUS
  <2>2. Scanned(WillSend', msgs', st2, cnt2)
      BY <1>7, <1>10, <2>1, Zenon DEF OneMore
  <2>3. Len(WillSend') = Len(w1) + 1
      BY <1>7, Zenon
  <2>4. st2[Len(w1) + 1] = Scan(Scan(c, Backslash), byte)
      BY <1>9, <1>10, Zenon DEF OneMore
  <2>5. cnt2[Len(w1) + 1] = n + 0
      BY <1>4, <1>9, <1>10, Zenon DEF OneMore
  <2>. QED  BY <1>2, <2>2, <2>3, <2>4, <2>5, Zenon
<1>12. \A i \in 0 .. len : st2[i] = st[i] /\ cnt2[i] = cnt[i]
  <2> SUFFICES ASSUME NEW i \in 0 .. len PROVE st2[i] = st[i] /\ cnt2[i] = cnt[i]
      OBVIOUS
  <2>1. i \in 0 .. Len(w1)
      BY <1>2, <1>7
  <2>. QED  BY <1>9, <1>10, <2>1, Zenon DEF OneMore
<1>13. /\ InStep(open', msgs', Len(WillSend'), st2[Len(WillSend')], cnt2[Len(WillSend')])
       /\ Len(WillSend') \in Nat /\ len <= Len(WillSend')
  <2>1. open' = open /\ msgs' = msgs
      OBVIOUS
  <2>2. InStep(open', msgs', Len(WillSend'), st2[Len(WillSend')], cnt2[Len(WillSend')])
      BY <1>4, <1>7, <1>11, <2>1, Zenon
  <2>. QED  BY <1>2, <1>7, <2>2
<1>14. \A j \in 1 .. cnt[len] : msgs'[j] = msgs[j]
    OBVIOUS
<1>. QED  BY <1>1, <1>6, <1>11, <1>12, <1>13, <1>14, TrackedNext DEF len

LEMMA CharacterTracked == TypeInv /\ JsonInv /\ SendCharacter => JsonInv'
<1> SUFFICES ASSUME TypeInv, JsonInv, SendCharacter PROVE JsonInv'
    OBVIOUS
<1>1. PICK char \in Alphabet :
        Emit(IF char \in {Quote, Backslash} THEN <<Backslash, char>> ELSE <<char>>)
    BY DEF SendCharacter
<1>2. Quoting /\ UNCHANGED <<open, msgs>> /\ char \in Byte
    BY PortAssumption DEF SendCharacter
<1>3. CASE char \in {Quote, Backslash}
    BY <1>1, <1>2, <1>3, EscapedTracked
<1>4. CASE char \notin {Quote, Backslash}
  <2>1. Emit(<<char>>) /\ open # << >> /\ Head(open) = Quote
      BY <1>1, <1>2, <1>4 DEF Quoting
  <2>. QED  BY <1>2, <1>4, <2>1, PlainTracked
<1>. QED  BY <1>3, <1>4


(* The framer reads the byte that the peer has sent in its place.              *)
LEMMA TrackedRead ==
    ASSUME TypeInv, NEW st, NEW cnt, Tracked(st, cnt), at \notin Ended,
           UNCHANGED <<wire, unsent, open, msgs, at>>,
           pos' = pos + 1, pos + 1 <= Len(wire), cut' = Scan(cut, wire[pos + 1]),
           frames' = IF Completes(cut, wire[pos + 1])
                     THEN Append(frames, <<pos + 1 - cut.size, pos + 1>>) ELSE frames
    PROVE  JsonInv'
<1> DEFINE len == Len(WillSend)  byte == wire[pos + 1]  i == pos + 1
<1>1. /\ len \in Nat /\ pos \in 0 .. len /\ i \in 0 .. len /\ i \in 1 .. len /\ i - 1 = pos
      /\ WillSend[i] = byte /\ frames \in Seq(Nat \X Nat) /\ Len(frames) \in Nat
      /\ WillSend' = WillSend /\ msgs' = msgs /\ open' = open /\ pos' = i
    BY StreamIs DEF TypeInv, TypeOK, WillSend
<1>2. /\ Scanned(WillSend, msgs, st, cnt) /\ InStep(open, msgs, len, st[len], cnt[len])
      /\ Len(frames) <= cnt[len] /\ \A j \in 1 .. Len(frames) : frames[j] = msgs[j]
      /\ cut = st[pos] /\ Len(frames) = cnt[pos]
    BY Zenon DEF Tracked
<1>3. /\ \A j \in 0 .. len : Fair(st[j]) /\ cnt[j] <= cnt[len]
      /\ \A j \in 1 .. len : Follows(WillSend, msgs, st, cnt, j)
    BY <1>2, Zenon DEF Scanned
<1>r. /\ cut' = Scan(cut, byte)
      /\ Completes(cut, byte) => frames' = Append(frames, <<pos + 1 - cut.size, i>>)
    OBVIOUS
<1> HIDE DEF len, byte, i
<1>4. cnt[i] <= cnt[len] /\ Follows(WillSend, msgs, st, cnt, i)
    BY <1>1, <1>3
<1>5. /\ st[i] = Scan(cut, byte)
      /\ IF Completes(cut, byte)
         THEN cnt[i] = Len(frames) + 1 /\ msgs[cnt[i]] = <<i - cut.size, i>>
         ELSE cnt[i] = Len(frames)
    BY <1>1, <1>2, <1>4, Zenon DEF Follows
<1>6. cut.size \in Nat /\ pos \in Nat
    BY DEF TypeInv, TypeOK
<1>7. CASE Completes(cut, byte)
  <2> DEFINE m == <<i - cut.size, i>>
  <2>1. frames' = Append(frames, m) /\ cut' = Scan(cut, byte) /\ cnt[i] = Len(frames) + 1
        /\ msgs[cnt[i]] = m
    <3>1. frames' = Append(frames, m) /\ cut' = Scan(cut, byte)
      <4>1. pos + 1 - cut.size = i - cut.size
        <5>1. \A k \in Nat : pos + 1 - k = (pos + 1) - k
            BY <1>6
        <5>. QED  BY <1>6, <5>1, Zenon DEF i
      <4>. QED  BY <1>7, <1>r, <4>1, Zenon
    <3>2. cnt[i] = Len(frames) + 1 /\ msgs[cnt[i]] = m
        BY <1>5, <1>7, Zenon
    <3>. QED  BY <3>1, <3>2
  <2>t. m \in Nat \X Nat
    <3>1. cut.size <= pos
        BY <1>7 DEF Completes, TypeInv, Underway
    <3>. QED  BY <1>6, <3>1 DEF i
  <2> HIDE DEF m
  <2>2. /\ Len(frames') = Len(frames) + 1 /\ frames'[Len(frames) + 1] = m
        /\ \A j \in 1 .. Len(frames) : frames'[j] = frames[j]
      BY <1>1, <2>1, <2>t
  <2>3. \A j \in 1 .. Len(frames') : frames'[j] = msgs'[j]
    <3> SUFFICES ASSUME NEW j \in 1 .. Len(frames') PROVE frames'[j] = msgs'[j]
        OBVIOUS
    <3>1. j \in 1 .. Len(frames) \/ j = Len(frames) + 1
        BY <1>1, <2>2
    <3>. QED  BY <1>1, <1>2, <2>1, <2>2, <3>1
  <2>4. Len(frames') <= cnt[len] /\ cut' = st[i] /\ Len(frames') = cnt[i]
      BY <1>4, <1>5, <2>1, <2>2
  <2>5. Tracked(st, cnt)'
      BY <1>1, <1>2, <2>3, <2>4, Zenon DEF Tracked, len
  <2>. QED  BY <2>5 DEF JsonInv
<1>8. CASE ~Completes(cut, byte)
  <2>1. frames' = frames /\ cut' = st[i] /\ cnt[i] = Len(frames)
      BY <1>5, <1>8 DEF byte, i
  <2>2. Tracked(st, cnt)'
      BY <1>1, <1>2, <2>1, Zenon DEF Tracked, len
  <2>. QED  BY <2>2 DEF JsonInv
<1>. QED  BY <1>7, <1>8

LEMMA JsonReads ==
    TypeInv /\ JsonInv /\ setup.framing = "json" /\ Framer =>
        JsonInv' /\ (at' = "failed" => at = "failed" \/ shut)
<1> SUFFICES ASSUME TypeInv, JsonInv, setup.framing = "json", Framer
             PROVE  JsonInv' /\ (at' = "failed" => at = "failed" \/ shut)
    OBVIOUS
<1>1. PICK st, cnt : Tracked(st, cnt)
    BY DEF JsonInv
<1>2. UNCHANGED <<wire, unsent, open, msgs, shut>> /\ at = "framing" /\ at \notin Ended
  <2>1. UNCHANGED <<wire, unsent, open, msgs, shut>>
      BY DEF Framer, ReadLength, ReadPayload, ReadEof, JsonStart, JsonByte, Reading, peer
  <2>. QED  BY <2>1, FramerEnds DEF Ended
<1>3. /\ Scanned(WillSend, msgs, st, cnt) /\ cut = st[pos]
      /\ InStep(open, msgs, Len(WillSend), st[Len(WillSend)], cnt[Len(WillSend)])
      /\ Len(frames) <= cnt[Len(WillSend)] /\ \A i \in 1 .. Len(frames) : frames[i] = msgs[i]
    BY <1>1, <1>2, Zenon DEF Tracked
<1>4. CASE JsonStart \/ JsonByte
  <2> DEFINE byte == wire[pos + 1]
  <2>1. pos' = pos + 1 /\ pos \in 0 .. Len(WillSend) /\ pos + 1 <= Len(wire)
        /\ pos + 1 \in 1 .. Len(WillSend) /\ (pos + 1) - 1 = pos /\ WillSend[pos + 1] = byte
    <3>1. pos' = pos + 1 /\ Len(wire) - pos >= 1
        BY <1>4 DEF JsonStart, JsonByte, Arrived
    <3>. QED  BY <3>1, StreamIs DEF TypeInv, TypeOK
  <2>2. Fair(cut) /\ (~cut.started => byte \in Space \cup Opening)
    <3>1. Fair(st[pos]) /\ Follows(WillSend, msgs, st, cnt, pos + 1)
        BY <1>3, <2>1, Zenon DEF Scanned
    <3>. QED  BY <1>3, <2>1, <3>1, Zenon DEF Follows
  <2> HIDE DEF byte
  <2>3. CASE JsonStart
    <3>1. ~cut.started /\ byte \in Space \cup Opening /\ UNCHANGED <<at, frames>>
          /\ ~Completes(cut, byte)
        BY <2>2, <2>3 DEF JsonStart, Goes, Completes, byte
    <3>2. cut' = Scan(cut, byte)
      <4>1. CASE byte \in Opening
        <5>1. byte \notin Space
            BY <4>1, Characters
        <5>. QED  BY <2>3, <3>1, <4>1, <5>1, Zenon DEF JsonStart, Scan, byte
      <4>2. CASE byte \notin Opening
        <5>1. cut' = cut
            BY <2>3, <3>1, <4>2 DEF JsonStart, byte
        <5>. QED  BY <3>1, <4>2, <5>1 DEF Scan
      <4>. QED  BY <4>1, <4>2
    <3>3. frames' = IF Completes(cut, byte)
                    THEN Append(frames, <<pos + 1 - cut.size, pos + 1>>) ELSE frames
        BY <3>1
    <3>4. JsonInv'
        BY <1>1, <1>2, <2>1, <3>1, <3>2, <3>3, TrackedRead DEF byte
    <3>. QED  BY <1>2, <3>1, <3>4
  <2>4. CASE JsonByte
    <3> DEFINE next == Taken(cut, byte)
    <3>1. /\ cut.started /\ UNCHANGED at
          /\ IF next.depth = 0 THEN Cut(pos + 1 - cut.size, pos + 1)
             ELSE cut' = [next EXCEPT !.size = @ + 1] /\ UNCHANGED frames
        BY <2>4, Zenon DEF JsonByte, Goes, Taken, byte
    <3>2. Scan(cut, byte) = IF next.depth = 0 THEN NoFrame ELSE [next EXCEPT !.size = @ + 1]
        BY <3>1 DEF Scan, Taken
    <3>3. next \in CutState /\ next.started
        BY <2>2, <3>1, ByteTypes DEF Fair, Taken
    <3> HIDE DEF next
    <3>4. CASE next.depth = 0
      <4>1. Completes(cut, byte) /\ cut' = Scan(cut, byte)
            /\ frames' = Append(frames, <<pos + 1 - cut.size, pos + 1>>)
          BY <3>1, <3>2, <3>4 DEF Cut, Completes, NoFrame
      <4>2. JsonInv'
          BY <1>1, <1>2, <2>1, <3>1, <4>1, TrackedRead DEF byte
      <4>. QED  BY <1>2, <3>1, <4>2
    <3>5. CASE next.depth # 0
      <4>1. cut' = Scan(cut, byte) /\ frames' = frames
          BY <3>1, <3>2, <3>5
      <4>2. Scan(cut, byte).started
          BY <3>2, <3>3, <3>5 DEF CutState
      <4>3. ~Completes(cut, byte)
          BY <4>2 DEF Completes
      <4>4. JsonInv'
          BY <1>1, <1>2, <2>1, <3>1, <4>1, <4>3, TrackedRead DEF byte
      <4>. QED  BY <1>2, <3>1, <4>4
    <3>. QED  BY <3>4, <3>5
  <2>. QED  BY <1>4, <2>3, <2>4
<1>5. CASE ReadEof
  <2>1. UNCHANGED <<pos, cut, frames>> /\ at' \in Ended /\ shut
      BY <1>5 DEF ReadEof, framer, Ends, AtEnd, Ended
  <2>2. WillSend' = WillSend
      BY <1>2 DEF WillSend
  <2>3. Tracked(st, cnt)'
      BY <1>2, <1>3, <2>1, <2>2, Zenon DEF Tracked
  <2>. QED  BY <2>1, <2>3 DEF JsonInv
<1>. QED  BY <1>4, <1>5 DEF Framer, ReadLength, ReadPayload, Framing


-----------------------------------------------------------------------------
(* Both framers, at every step of the connection.                             *)
CutInv ==
    setup.speaks = "thrift" =>
        /\ setup.framing = "framed" => FramedInv
        /\ setup.framing = "json" => JsonInv
        /\ setup.http = "none" => /\ at \in {"accepted", "framing"} \cup Ended
                                  /\ at = "failed" => shut

LEMMA StaysEnded == [Next]_vars => (at' \notin Ended => at \notin Ended)
<1> SUFFICES ASSUME [Next]_vars, at \in Ended PROVE at' \in Ended
    OBVIOUS
<1>1. CASE Peer \/ UNCHANGED vars
    BY <1>1, PeerKeeps DEF vars
<1>2. CASE Probe \/ Http \/ RuntimeDropped
    BY <1>2 DEF Ended, Probe, Accepted, Peek, Wake, Http, HandOver, RuntimeDropped,
                invoke_python_http_handler, HandlerReturns, CoroutineEnds
<1>3. CASE Framer
    BY <1>3, FramerEnds DEF Ended
<1>. QED  BY <1>1, <1>2, <1>3 DEF Next

LEMMA FailsIn == [Next]_vars /\ at' = "failed" => at = "failed" \/ Framer \/ at \in Handed
<1> SUFFICES ASSUME [Next]_vars, at' = "failed", ~Framer, at \notin Handed PROVE at = "failed"
    OBVIOUS
<1>1. CASE Peer \/ UNCHANGED vars
    BY <1>1, PeerKeeps DEF vars
<1>2. CASE Probe \/ Http
    BY <1>2 DEF Handed, Probe, Accepted, Peek, Wake, Http, HandOver,
                invoke_python_http_handler, HandlerReturns, CoroutineEnds
<1>3. CASE RuntimeDropped
    BY <1>3 DEF RuntimeDropped
<1>. QED  BY <1>1, <1>2, <1>3 DEF Next

(* A step that neither sends nor frames changes nothing of it.                 *)
LEMMA NothingMoves ==
    ASSUME WillSend' = WillSend, UNCHANGED <<open, msgs, framer>>,
           at' \notin Ended => at \notin Ended
    PROVE  (FramedInv => FramedInv') /\ (JsonInv => JsonInv')
<1>1. open' = open /\ msgs' = msgs /\ pos' = pos /\ cut' = cut /\ frames' = frames
    BY DEF framer
<1>2. FramedInv => FramedInv'
    BY <1>1 DEF FramedInv
<1>3. ASSUME NEW st, NEW cnt, Tracked(st, cnt) PROVE Tracked(st, cnt)'
    BY <1>1, <1>3, Zenon DEF Tracked
<1>. QED  BY <1>2, <1>3 DEF JsonInv

LEMMA ShutStays == TypeInv /\ [Next]_vars => (shut => shut')
BY WireGrows

LEMMA TaskMoves ==
    [Next]_vars /\ ~Framer /\ ~Peer => WillSend' = WillSend /\ UNCHANGED <<open, msgs, framer>>
<1> SUFFICES ASSUME [Next]_vars, ~Framer, ~Peer
             PROVE  WillSend' = WillSend /\ UNCHANGED <<open, msgs, framer>>
    OBVIOUS
<1>1. CASE UNCHANGED vars
    BY <1>1 DEF vars, peer, framer, WillSend
<1>2. CASE Probe \/ Http \/ RuntimeDropped
  <2>1. UNCHANGED <<peer, framer>>
      BY <1>2 DEF Probe, Accepted, Peek, Wake, Http, HandOver, RuntimeDropped,
                invoke_python_http_handler, HandlerReturns, CoroutineEnds
  <2>. QED  BY <2>1 DEF peer, WillSend
<1>. QED  BY <1>1, <1>2 DEF Next

LEMMA PeerSends ==
    ASSUME TypeInv, setup.speaks = "thrift", Peer
    PROVE  /\ setup.framing = "framed" /\ FramedInv => FramedInv'
           /\ setup.framing = "json" /\ JsonInv => JsonInv'
<1>a. at' \notin Ended => at \notin Ended
    BY PeerKeeps
<1>1. CASE Send
  <2>1. WillSend' = WillSend /\ UNCHANGED <<open, msgs, framer>>
      BY <1>1, SendKeeps DEF Send
  <2>. QED  BY <1>a, <2>1, NothingMoves
<1>2. CASE Shut
  <2>1. WillSend' = WillSend /\ UNCHANGED <<open, msgs, framer>>
      BY <1>2 DEF Shut, WillSend
  <2>. QED  BY <1>a, <2>1, NothingMoves
<1>3. CASE SendFramed
  <2>1. setup.framing = "framed"
      BY <1>3 DEF SendFramed, Speaks
  <2>. QED  BY <1>3, <2>1, SendFramedKeeps
<1>4. CASE SendBracket \/ SendClosing \/ SendQuote \/ SendCharacter \/ SendToken
  <2>1. setup.framing = "json"
      BY <1>4 DEF SendBracket, SendClosing, SendQuote, SendCharacter, SendToken, Emit, Speaks
  <2>. QED  BY <1>4, <2>1, BracketTracked, ClosingTracked, QuoteTracked, CharacterTracked,
               TokenTracked
<1>. QED  BY <1>1, <1>2, <1>3, <1>4 DEF Peer

LEMMA CutStep == TypeInv /\ CutInv /\ [Next]_vars => CutInv'
<1> SUFFICES ASSUME TypeInv, CutInv, [Next]_vars, setup.speaks = "thrift" PROVE CutInv'
    BY PosWaits DEF CutInv
<1>1. /\ setup.framing = "framed" => FramedInv
      /\ setup.framing = "json" => JsonInv
      /\ setup.http = "none" => at \in {"accepted", "framing"} \cup Ended
      /\ setup.http = "none" /\ at = "failed" => shut
    BY DEF CutInv
<1>2. setup' = setup /\ (shut => shut') /\ (at' \notin Ended => at \notin Ended)
    BY PosWaits, ShutStays, StaysEnded
<1>3. setup.framing = "framed" => FramedInv' /\ (Framer /\ at' = "failed" => at = "failed" \/ shut)
  <2> SUFFICES ASSUME setup.framing = "framed"
               PROVE  FramedInv' /\ (Framer /\ at' = "failed" => at = "failed" \/ shut)
      OBVIOUS
  <2>1. CASE Framer
      BY <1>1, <2>1, FramedReads
  <2>2. CASE Peer /\ ~Framer
      BY <1>1, <2>2, PeerSends
  <2>3. CASE ~Framer /\ ~Peer
      BY <1>1, <1>2, <2>3, TaskMoves, NothingMoves
  <2>. QED  BY <2>1, <2>2, <2>3
<1>4. setup.framing = "json" => JsonInv' /\ (Framer /\ at' = "failed" => at = "failed" \/ shut)
  <2> SUFFICES ASSUME setup.framing = "json"
               PROVE  JsonInv' /\ (Framer /\ at' = "failed" => at = "failed" \/ shut)
      OBVIOUS
  <2>1. CASE Framer
      BY <1>1, <2>1, JsonReads
  <2>2. CASE Peer /\ ~Framer
      BY <1>1, <2>2, PeerSends
  <2>3. CASE ~Framer /\ ~Peer
      BY <1>1, <1>2, <2>3, TaskMoves, NothingMoves
  <2>. QED  BY <2>1, <2>2, <2>3
<1>5. setup.framing \in {"framed", "json"}
    BY PortAssumption DEF TypeInv, TypeOK
<1>6. ASSUME setup.http = "none" PROVE at' \in {"accepted", "framing"} \cup Ended
  <2>1. at # "peeking" /\ at # "asleep" /\ at \notin Handed
      BY <1>1, <1>6 DEF Ended, Handed
  <2>2. ~Peek
      BY <2>1 DEF Peek
  <2>. QED  BY <1>1, <1>6, <2>1, <2>2, AtMoves
<1>7. ASSUME setup.http = "none", at' = "failed" PROVE shut'
  <2>1. at = "failed" \/ Framer
      BY <1>1, <1>7, FailsIn DEF Ended, Handed
  <2>2. at = "failed" \/ shut
      BY <1>3, <1>4, <1>5, <1>7, <2>1
  <2>. QED  BY <1>1, <1>2, <1>7, <2>2
<1>. QED  BY <1>2, <1>3, <1>4, <1>6, <1>7 DEF CutInv

LEMMA CutInit == Init => CutInv
<1> SUFFICES ASSUME Init, setup.speaks = "thrift" PROVE CutInv
    BY DEF CutInv
<1>1. /\ wire = << >> /\ unsent = << >> /\ msgs = << >> /\ frames = << >> /\ open = << >>
      /\ at = "accepted" /\ pos = 0 /\ cut = NoFrame
    BY DEF Init
<1>2. WillSend = << >> /\ Len(WillSend) = 0 /\ Len(msgs) = 0 /\ Len(frames) = 0
    BY <1>1 DEF WillSend
<1>3. FramedInv
  <2>1. cut.size = 0
      BY <1>1 DEF NoFrame
  <2>. QED  BY <1>1, <1>2, <2>1 DEF FramedInv, Laid, Before, EndOf
<1>4. JsonInv
  <2> DEFINE st  == [i \in 0 .. 0 |-> NoFrame]
             cnt == [i \in 0 .. 0 |-> 0]
  <2>1. /\ st \in [0 .. 0 -> CutState] /\ cnt \in [0 .. 0 -> Nat] /\ st[0] = NoFrame
        /\ cnt[0] = 0 /\ \A i \in 0 .. 0 : i = 0
      BY NoFrameType
  <2> HIDE DEF st, cnt
  <2>2. Fair(NoFrame) /\ ~NoFrame.started
      BY NoFrameType DEF Fair, NoFrame
  <2>3. Scanned(WillSend, msgs, st, cnt)
    <3>1. \A i \in 0 .. 0 : Fair(st[i]) /\ cnt[i] <= cnt[0]
        BY <2>1, <2>2
    <3>2. \A i \in 1 .. 0 : Follows(WillSend, msgs, st, cnt, i)
        OBVIOUS
    <3>. QED  BY <1>2, <2>1, <3>1, <3>2, Zenon DEF Scanned
  <2>4. InStep(open, msgs, 0, st[0], cnt[0])
      BY <1>1, <1>2, <2>1, <2>2 DEF InStep
  <2>5. Len(frames) <= cnt[0] /\ (\A i \in 1 .. Len(frames) : frames[i] = msgs[i])
        /\ cut = st[pos] /\ Len(frames) = cnt[pos]
      BY <1>1, <1>2, <2>1
  <2>6. Tracked(st, cnt)
      BY <1>2, <2>3, <2>4, <2>5, Zenon DEF Tracked
  <2>. QED  BY <2>6 DEF JsonInv
<1>. QED  BY <1>1, <1>3, <1>4 DEF CutInv, Ended

LEMMA CutHolds == TypeInv /\ CutInv => CutsWhereItEnds
<1> SUFFICES ASSUME TypeInv, CutInv, setup.speaks = "thrift"
             PROVE  /\ Len(frames) <= Len(msgs)
                    /\ \A i \in DOMAIN frames : frames[i] = msgs[i]
                    /\ at = "failed" /\ setup.http = "none" => shut
    BY DEF CutsWhereItEnds
<1>1. DOMAIN frames = 1 .. Len(frames)
    BY DEF TypeInv, TypeOK
<1>2. CASE setup.framing = "framed"
    BY <1>1, <1>2 DEF CutInv, FramedInv
<1>3. CASE setup.framing = "json"
  <2>1. PICK st, cnt : Tracked(st, cnt)
      BY <1>3 DEF CutInv, JsonInv
  <2> DEFINE len == Len(WillSend)  n == cnt[len]
  <2>2. n \in Nat /\ InStep(open, msgs, len, st[len], n)
      BY <2>1, LastSeen
  <2>3. Len(frames) <= n /\ \A i \in 1 .. Len(frames) : frames[i] = msgs[i]
      BY <2>1, Zenon DEF Tracked
  <2> HIDE DEF n, len
  <2>4. n <= Len(msgs) /\ Len(msgs) \in Nat /\ Len(frames) \in Nat
    <3>1. Len(msgs) \in Nat /\ Len(frames) \in Nat
        BY DEF TypeInv, TypeOK
    <3>2. n = Len(msgs) \/ n + 1 = Len(msgs)
        BY <2>2, Zenon DEF InStep, Inside, Began
    <3>. QED  BY <2>2, <3>1, <3>2
  <2>. QED  BY <1>1, <2>2, <2>3, <2>4 DEF CutInv
<1>4. setup.framing \in {"framed", "json"}
    BY PortAssumption DEF TypeInv, TypeOK
<1>. QED  BY <1>2, <1>3, <1>4

(* Whatever the peer sends in its own framing and whatever the pieces it        *)
(* arrives in, each frame that the task cuts is the message that the peer sent  *)
(* in that place, from its first byte to its last, and without an HTTP handler  *)
(* a connection fails only if the peer closed it.                             *)
THEOREM CutsRight == Spec => []CutsWhereItEnds
<1>1. Spec => []CutInv
    BY CutInit, TypesHold, CutStep, PTL DEF Spec
<1>. QED
    BY <1>1, TypesHold, CutHolds, PTL
=============================================================================
