--------------------------- MODULE WriteResponse ---------------------------
(***************************************************************************)
(* write_notls of src/ctx/ctx-http.c: a finished response leaves through a *)
(* socket in partial sends with MSG_DONTWAIT; a static file follows its    *)
(* header by sendfile(), which blocks, since accept() returns blocking     *)
(* sockets.  Bytes are counted.  The client drains the socket at its own   *)
(* pace, or resets it; the file may change size while it is being sent.    *)
(***************************************************************************)
EXTENDS Integers, FiniteSetsExt

CONSTANTS
  WriteSize,    \* CTX_WRITE_SIZE
  WTimeout,     \* server_t.wtimeout
  SocketSpace,  \* bytes the socket holds before send() answers EAGAIN
  MsgLens,      \* lengths of the messages considered (res->mlen)
  FileLens      \* lengths of the files considered (res->clen)

ASSUME WriteAssumption ==
  /\ {WriteSize, WTimeout, SocketSpace} \subseteq Nat \ {0}
  /\ MsgLens \subseteq Nat /\ FileLens \subseteq Nat

Responses == [sendfile : BOOLEAN, mlen : MsgLens, clen : FileLens]

VARIABLES
  rs,        \* the response
  flen,      \* length of the file, res->clen when it was opened
  resized,   \* the file has changed length since
  space,     \* bytes the socket can take
  peer,      \* "open" or "reset"
  elapsed,   \* seconds since timer, counted up to WTimeout + 1
  wpc,       \* control point of write_notls
  total,     \* bytes left of the message, then of the file
  pos,       \* bytes sent
  foff,      \* offset of the file
  ret        \* what write_notls returned, -1 before

envVars == <<flen, resized, space, peer>>
vars == <<rs, envVars, elapsed, wpc, total, pos, foff, ret>>

TypeOK ==
  /\ rs \in Responses /\ flen \in FileLens /\ resized \in BOOLEAN
  /\ space \in 0 .. SocketSpace /\ peer \in {"open", "reset"}
  /\ elapsed \in 0 .. WTimeout + 1
  /\ wpc \in {"message", "file", "done"}
  /\ total \in Int /\ \E n \in FileLens : total >= -n
  /\ pos \in Nat /\ foff \in Nat /\ ret \in {-1, 0, 1}

Init ==
  /\ rs \in Responses
  /\ flen = rs.clen /\ resized = FALSE
  /\ space = SocketSpace /\ peer = "open" /\ elapsed = 0
  /\ wpc = "message" /\ total = rs.mlen /\ pos = 0 /\ foff = 0 /\ ret = -1

-----------------------------------------------------------------------------
(* The client, the file and the clock.                                     *)

Drain ==
  /\ peer = "open" /\ space < SocketSpace
  /\ space' \in space + 1 .. SocketSpace
  /\ UNCHANGED <<rs, flen, resized, peer, elapsed, wpc, total, pos, foff, ret>>

Reset ==
  /\ peer = "open" /\ peer' = "reset"
  /\ UNCHANGED <<rs, flen, resized, space, elapsed, wpc, total, pos, foff, ret>>

Resize ==
  /\ rs.sendfile /\ ~resized /\ wpc # "done"
  /\ flen' \in FileLens \ {flen} /\ resized' = TRUE
  /\ UNCHANGED <<rs, space, peer, elapsed, wpc, total, pos, foff, ret>>

Tick ==
  /\ wpc # "done" /\ elapsed <= WTimeout
  /\ elapsed' = elapsed + 1
  /\ UNCHANGED <<rs, envVars, wpc, total, pos, foff, ret>>

-----------------------------------------------------------------------------
Return(value) == wpc' = "done" /\ ret' = value

\* Mutant: a partial send is taken for a whole one.
MessageSendOnce ==
  /\ wpc = "message" /\ peer = "open"
  /\ \E n \in 1 .. Min({total, space}) :
       /\ total' = total - n /\ pos' = pos + n /\ space' = space - n
  /\ IF rs.sendfile THEN UNCHANGED <<wpc, ret>> ELSE Return(1)
  /\ UNCHANGED <<rs, flen, resized, peer, elapsed, foff>>

\* send() takes part of what is left.  When nothing is left a message is
\* complete, and the file follows a header.
MessageSend ==
  /\ wpc = "message" /\ peer = "open"
  /\ \E n \in 1 .. Min({total, space}) :
       /\ total' = total - n /\ pos' = pos + n /\ space' = space - n
  /\ IF total' > 0 \/ rs.sendfile
       THEN UNCHANGED <<wpc, ret>>
       ELSE Return(1)
  /\ UNCHANGED <<rs, flen, resized, peer, elapsed, foff>>

\* An empty message: a response that could not be finalized.
MessageEmpty ==
  /\ wpc = "message" /\ total = 0 /\ ~rs.sendfile
  /\ Return(1)
  /\ UNCHANGED <<rs, envVars, elapsed, total, pos, foff>>

StartFile ==
  /\ wpc = "message" /\ total = 0 /\ rs.sendfile
  /\ total' = rs.clen
  /\ IF rs.clen = 0 THEN Return(1) ELSE wpc' = "file" /\ UNCHANGED ret
  /\ UNCHANGED <<rs, envVars, elapsed, pos, foff>>

\* EPIPE or ECONNRESET, in either loop.
WriteError ==
  /\ wpc \in {"message", "file"} /\ peer = "reset" /\ total # 0
  /\ Return(0)
  /\ UNCHANGED <<rs, envVars, elapsed, total, pos, foff>>

\* EAGAIN: a header is given wtimeout seconds, any other message one more.
\* Until then the loop sleeps and tries again.
MessageTimeout ==
  /\ wpc = "message" /\ peer = "open" /\ total > 0 /\ space = 0
  /\ IF rs.sendfile THEN elapsed >= WTimeout ELSE elapsed > WTimeout
  /\ Return(0)
  /\ UNCHANGED <<rs, envVars, elapsed, total, pos, foff>>

\* Mutant: the offset is not remembered between two sends.
FileSendRestarts ==
  /\ wpc = "file" /\ peer = "open"
  /\ \E n \in 1 .. Min({WriteSize, flen - foff, space}) :
       /\ total' = total - n /\ pos' = pos + n
       /\ foff' = n /\ space' = space - n
  /\ IF total' # 0 THEN UNCHANGED <<wpc, ret>> ELSE Return(1)
  /\ UNCHANGED <<rs, flen, resized, peer, elapsed>>

\* sendfile() asks for WriteSize bytes, however few are left to send.
FileSend ==
  /\ wpc = "file" /\ peer = "open"
  /\ \E n \in 1 .. Min({WriteSize, flen - foff, space}) :
       /\ total' = total - n /\ pos' = pos + n
       /\ foff' = foff + n /\ space' = space - n
  /\ IF total' # 0 THEN UNCHANGED <<wpc, ret>> ELSE Return(1)
  /\ UNCHANGED <<rs, flen, resized, peer, elapsed>>

\* Mutant: the end of the file is not taken for the end of the response.
FileEndIgnored ==
  /\ wpc = "file" /\ foff >= flen
  /\ UNCHANGED vars

FileEnd ==
  /\ wpc = "file" /\ foff >= flen
  /\ Return(1)
  /\ UNCHANGED <<rs, envVars, elapsed, total, pos, foff>>

Writer ==
  \/ MessageSend \/ MessageEmpty \/ StartFile \/ WriteError \/ MessageTimeout
  \/ FileSend \/ FileEnd

Next == Drain \/ Reset \/ Resize \/ Tick \/ Writer

Spec == Init /\ [][Next]_vars

\* The worker is scheduled and the clock runs; the client promises nothing.
FairSpec == Spec /\ WF_vars(Writer) /\ WF_vars(Tick)

-----------------------------------------------------------------------------
(* Properties.                                                             *)

\* write_notls reports success only when every byte of the header and of
\* the file it announced has been taken by the socket, unless the file
\* changed size meanwhile; it gives up only on a client that reset the
\* connection or was too slow.
OutcomeIsTrue ==
  /\ ret = 1 /\ ~resized => pos = rs.mlen + (IF rs.sendfile THEN rs.clen ELSE 0)
  /\ ret = 0 => peer = "reset" \/ elapsed >= WTimeout

\* What has been sent is never more than the Content-Length the header
\* announced, unless the file has grown.
WithinContentLength ==
  rs.sendfile /\ flen <= rs.clen => pos <= rs.mlen + rs.clen

\* write_notls returns, or waits in sendfile() for a client that neither
\* drains the connection nor resets it: wtimeout does not reach there.
WriteEnds ==
  <>(wpc = "done") \/ <>[](wpc = "file" /\ space = 0 /\ peer = "open")
=============================================================================
