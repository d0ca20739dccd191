------------------------------ MODULE WebSocket ------------------------------
(***************************************************************************)
(* The WebSocket server: the handshake, and the frames that follow it on   *)
(* the same connection.                                                    *)
(*                                                                         *)
(* Units as in Http.  The two first bytes of a frame and its extended      *)
(* length are one unit, a record [fin, opcode, masked, len, id]; its mask  *)
(* is one Octet and each byte of the payload is another.  A payload is     *)
(* known by the number id of its frame, so masking is left out.            *)
(***************************************************************************)
EXTENDS Http

CONSTANTS Handshakes,   \* [method, key] a client may open with
          Frames,       \* [fin, opcode, masked, len] a client may send
          MaxFrames,    \* bound: frames on the connection
          FrameSizes    \* lengths for which the length field is checked

ASSUME WebSocketAssumption == MaxFrames \in Nat /\ FrameSizes \subseteq Nat

VARIABLES web,          \* the WebContext, its input and the connection
          webWire,      \* bytes on their way to the server
          framesSent,   \* frames sent
          framesTaken,  \* how many of them the server has taken from its buffer
          messages      \* what the read callback was called with

webVars == <<web, webWire, framesSent, framesTaken, messages>>

WebInit ==
    /\ web = [state |-> "kExpectRequestLine", opcode |-> "ERROR_FRAME",
              parseString |-> <<>>, callback |-> "onHandeShake", buf |-> <<>>, pc |-> "idle", connected |-> TRUE]
    /\ webWire = <<>> /\ framesSent = <<>> /\ framesTaken = 0 /\ messages = <<>>

\* The handshake is the first thing that a client sends.
OpenWeb(h) ==
    /\ web.callback = "onHandeShake" /\ web.connected /\ webWire = <<>> /\ web.buf = <<>>
    /\ webWire' = <<[unit |-> "request", method |-> h.method, version |-> "kHttp11"], EndOfLine>>
                  \o (IF h.key THEN <<[unit |-> "header"], EndOfLine>> ELSE <<>>) \o <<EndOfLine>>
    /\ UNCHANGED <<web, framesSent, framesTaken, messages>>

\* Frames follow, at the earliest right behind the handshake.
SendFrame(f) ==
    /\ Len(framesSent) < MaxFrames /\ web.connected
    /\ webWire # <<>> \/ web.callback = "onMessage"
    /\ framesSent' = Append(framesSent, f)
    /\ webWire' = webWire \o <<[unit |-> "frame", frame |-> f, id |-> Len(framesSent) + 1]>>
                          \o [i \in 1 .. f.len + 1 |-> Octet]
    /\ UNCHANGED <<web, framesTaken, messages>>

WebRead(n) ==
    /\ web.pc = "idle" /\ web.connected /\ n \in 1 .. Len(webWire)
    /\ web' = [web EXCEPT !.buf = @ \o SubSeq(webWire, 1, n), !.pc = web.callback]
    /\ webWire' = SubSeq(webWire, n + 1, Len(webWire))
    /\ UNCHANGED <<framesSent, framesTaken, messages>>

\* WebContext::parseRequest gets to the empty line: the length of the
\* handshake, with a header or without, or 0.
HandshakeSize(buf) ==
    CASE Len(buf) >= 3 /\ IsRequestLine(buf) /\ Method(buf) # "kInvalid" /\ buf[3] = EndOfLine -> 3
      [] Len(buf) >= 5 /\ IsRequestLine(buf) /\ Method(buf) # "kInvalid" /\ buf[3] # EndOfLine -> 5
      [] OTHER -> 0

\* onHandeShake: anything but one whole GET in one read closes the
\* connection; a GET without Sec-WebSocket-Key does as well.
onHandeShake ==
    LET size == HandshakeSize(web.buf)
        key == size = 5
    IN  /\ web.pc = "onHandeShake"
        /\ web' = [web EXCEPT !.state = IF size > 0 THEN "kGotAll" ELSE "kExpectHeaders",
                              !.buf = SubSeq(@, size + 1, Len(@)), !.pc = "idle",
                              !.callback = IF key THEN "onMessage" ELSE @,
                              !.connected = key /\ Method(web.buf) = "kGet"]
        /\ UNCHANGED <<webWire, framesSent, framesTaken, messages>>

FrameSize(f) == f.len + 2

\* Mutant: the message in which a frame ends is not cut off from the next.
KeepsMessage(text) == text

\* WebRequest::reset empties parseString.
ResetMessage(text) == <<>>

\* wsFrameExtractBuffer has a frame when all its bytes are there.
WholeFrame(buf) == buf # <<>> /\ Len(buf) >= FrameSize(Head(buf).frame)

\* One round of the loop in WebServer::onMessage, the callback of which
\* returns goon.  A frame that closes the connection stays in the buffer.
TakeFrame(goon) ==
    LET f == Head(web.buf).frame
        id == Head(web.buf).id
        text == IF f.masked THEN Append(web.parseString, id) ELSE web.parseString
        opcode == IF f.fin THEN f.opcode ELSE "CONTINUATION_FRAME"
        control == opcode \in {"PING_FRAME", "PONG_FRAME", "CLOSE_FRAME"}
        delivered == ~control /\ opcode # "CONTINUATION_FRAME"
        closes == control \/ (delivered /\ ~goon)
        rest == SubSeq(web.buf, FrameSize(f) + 1, Len(web.buf))
    IN  /\ web.pc = "onMessage" /\ WholeFrame(web.buf)
        /\ web' = [web EXCEPT !.parseString = IF delivered /\ goon THEN ResetMessage(text) ELSE text,
                              !.opcode = IF delivered /\ goon THEN "ERROR_FRAME" ELSE opcode,
                              !.buf = IF closes THEN @ ELSE rest,
                              !.pc = IF closes THEN "idle" ELSE @,
                              !.connected = @ /\ f.masked /\ ~closes]
        /\ messages' = IF delivered THEN Append(messages, text) ELSE messages
        /\ framesTaken' = IF closes THEN framesTaken ELSE framesTaken + 1
        /\ UNCHANGED <<webWire, framesSent>>

FrameWaits ==
    /\ web.pc = "onMessage" /\ ~WholeFrame(web.buf)
    /\ web' = [web EXCEPT !.pc = "idle"]
    /\ UNCHANGED <<webWire, framesSent, framesTaken, messages>>

WebNext ==
    \/ \E h \in Handshakes : OpenWeb(h)
    \/ \E f \in Frames : SendFrame(f)
    \/ \E n \in {1, Len(webWire)} : WebRead(n)
    \/ onHandeShake
    \/ \E goon \in BOOLEAN : TakeFrame(goon)
    \/ FrameWaits

-----------------------------------------------------------------------------
(* The length field of an answer (wsFrameBuild without a mask).  Each byte *)
(* is computed from readableBytes, which the bytes put before it raise.    *)

wsFrameBuild(n) ==
    IF n <= 125 THEN <<n>>
    ELSE IF n <= 65535 THEN <<126, ((n + 1) \div 256) % 256, n % 256>>
    ELSE <<127, 0, 0, 0, 0, ((n + 3) \div 16777216) % 256, ((n + 2) \div 65536) % 256, ((n + 1) \div 256) % 256, n % 256>>

\* The length that wsFrameExtractBuffer reads from such a field.
FrameLength(b) ==
    CASE b[1] <= 125 -> b[1]
      [] b[1] = 126  -> b[2] * 256 + b[3]
      [] OTHER       -> b[6] * 16777216 + b[7] * 65536 + b[8] * 256 + b[9]

-----------------------------------------------------------------------------
\* The frames at which a message ends: final and with an opcode of their own.
Ends == SelectSeq([i \in 1 .. Len(framesSent) |-> i],
                  LAMBDA i : framesSent[i].fin /\ framesSent[i].opcode \in {"TEXT_FRAME", "BINARY_FRAME"})

\* The payloads of message number n: those since the message before.
FramedMessage(n) ==
    LET first == IF n = 1 THEN 1 ELSE Ends[n - 1] + 1
    IN  SelectSeq([k \in 1 .. Ends[n] - first + 1 |-> first + k - 1], LAMBDA j : framesSent[j].masked)

(* However the stream is cut, every frame is taken once and in order: the  *)
(* callback gets the payloads of the frames since the message before, none *)
(* lost, torn or repeated, and a frame that has wholly come in does not    *)
(* wait (wsFrameExtractBuffer, WebServer::onMessage).  The length field of *)
(* an answer is right, but for lengths just under a multiple of 256.       *)
FramesServed ==
    /\ Len(messages) <= Len(Ends)
    /\ \A n \in DOMAIN messages : messages[n] = FramedMessage(n)
    /\ web.pc = "idle" /\ webWire = <<>> /\ web.connected /\ framesTaken > 0 => framesTaken = Len(framesSent)
    /\ \A n \in FrameSizes : n % 256 < 253 => FrameLength(wsFrameBuild(n)) = n

(* Both servers: what was sent is what the program above them sees.        *)
StreamsServed == HttpServed /\ FramesServed
=============================================================================
