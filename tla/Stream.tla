------------------------------- MODULE Stream -------------------------------
(***************************************************************************)
(* A response written over time, with libmicrohttpd (corRestBackendMhd.c): *)
(* the back-end opens it when it queues the response, the application      *)
(* writes on it from any thread, and libmicrohttpd's thread reads what is  *)
(* there, the connection suspended while there is nothing.  MhdServer has  *)
(* the request whose response it is.                                       *)
(*                                                                         *)
(* Everything under the stream's mutex is one step.  The body is the       *)
(* numbers 1, 2, ... in the order of the writes that were accepted, a      *)
(* number a unit of data.  libmicrohttpd is external: a connection that is *)
(* not suspended is read from again and again, and can be given up; a      *)
(* suspended one is left alone until it is resumed.                        *)
(***************************************************************************)
EXTENDS Naturals, Sequences

CONSTANTS
  MaxWritten,  \* bound: units the application writes
  MaxLen,      \* bound: units in one write
  PendingMax   \* COR_REST_STREAM_PENDING_MAX, in units

VARIABLES
  opened,     \* streamOpenF was called: "no", with a "stream", or with "null"
  buf, off,   \* as in CorRestStream: the first off units of buf are taken
  suspended, ended, cut, gone, refs, freed,
  streams,    \* responses not destroyed yet
  mhd,        \* the connection: "none", "active", "suspended", "closing", "closed"
  app,        \* the application: "writes", "ending" (in corRestStreamEnd), "done"
  written,    \* units accepted: corRestStreamWrite said true
  sent,       \* what libmicrohttpd took
  complete,   \* it was told the end of the stream
  misused     \* ghost: libmicrohttpd's suspend/resume contract was broken

Init ==
  /\ opened = "no"
  /\ buf = <<>> /\ off = 0
  /\ suspended = FALSE /\ ended = FALSE /\ cut = FALSE /\ gone = FALSE
  /\ refs = 0 /\ freed = FALSE /\ streams = 0
  /\ mhd = "none"
  /\ app = "writes" /\ written = 0
  /\ sent = <<>> /\ complete = FALSE /\ misused = FALSE

-----------------------------------------------------------------------------
(* streamResponse: two references; or no memory, and the application is    *)
(* told that there is no stream                                            *)

Queue ==
  /\ opened = "no"
  /\ \/ opened' = "stream" /\ refs' = 2 /\ streams' = 1 /\ mhd' = "active"
     \/ opened' = "null" /\ UNCHANGED <<refs, streams, mhd>>
  /\ UNCHANGED <<buf, off, suspended, ended, cut, gone, freed, app, written, sent, complete, misused>>

-----------------------------------------------------------------------------
(* The application: any of its threads                                     *)

\* resume: only a connection the reader suspended, and that is still there
Resume ==
  IF suspended /\ ~gone
    THEN /\ suspended' = FALSE
         /\ mhd' = "active"
         /\ misused' = (misused \/ mhd # "suspended")
    ELSE UNCHANGED <<suspended, mhd, misused>>

\* mutant: the first one to let go frees
ReleaseFrees ==
  /\ refs' = refs - 1
  /\ freed' = TRUE

\* release: the last one frees
Release ==
  /\ refs' = refs - 1
  /\ freed' = (refs = 1)

Open == opened = "stream" /\ app = "writes"

\* n units of data after the first x
Units(x, n) == [i \in 1 .. n |-> x + i]

\* corRestStreamWrite, n > 0: queued, or the stream is cut - the client is too
\* far behind, or there is no memory
Write(n) ==
  /\ Open /\ written + n <= MaxWritten
  /\ ~gone /\ ~ended
  /\ \/ /\ ~cut /\ Len(buf) + n - off <= PendingMax
        /\ buf' = buf \o Units(written, n)
        /\ written' = written + n
        /\ UNCHANGED cut
     \/ cut' = TRUE /\ UNCHANGED <<buf, written>>
  /\ Resume
  /\ UNCHANGED <<opened, off, ended, gone, refs, freed, streams, app, sent, complete>>

\* corRestStreamWrite, 0 bytes: peerLeft looks, only at a suspended connection,
\* and finds that the client has closed its side
Probe ==
  /\ Open /\ ~gone /\ ~ended
  /\ suspended
  /\ cut' = TRUE
  /\ Resume
  /\ UNCHANGED <<opened, buf, off, ended, gone, refs, freed, streams, app, written, sent, complete>>

\* mutant: the end is marked, the reader not resumed
EndSilently ==
  /\ Open
  /\ ended' = TRUE /\ app' = "ending"
  /\ UNCHANGED <<opened, buf, off, suspended, cut, gone, refs, freed, streams, mhd, written,
                 sent, complete, misused>>

\* corRestStreamEnd: the flag and the wake-up under the mutex, the reference after
End ==
  /\ Open
  /\ ended' = TRUE /\ app' = "ending"
  /\ Resume
  /\ UNCHANGED <<opened, buf, off, cut, gone, refs, freed, streams, written, sent, complete>>

EndRelease ==
  /\ app = "ending"
  /\ app' = "done"
  /\ Release
  /\ UNCHANGED <<opened, buf, off, suspended, ended, cut, gone, streams, mhd, written,
                 sent, complete, misused>>

-----------------------------------------------------------------------------
(* libmicrohttpd                                                           *)

\* the response is destroyed: streamFree.  The reference is released after
Destroy ==
  /\ gone' = TRUE /\ mhd' = "closing"
  /\ streams' = streams - 1

\* streamRead on a cut stream, or with nothing left of an ended one
ReadEnds ==
  /\ mhd = "active"
  /\ cut \/ (ended /\ Len(buf) = off)
  /\ complete' = (~cut)
  /\ Destroy
  /\ UNCHANGED <<opened, buf, off, suspended, ended, cut, refs, freed, app, written, sent, misused>>

\* streamRead takes n units; all of them taken, the buffer starts over
ReadTakes(n) ==
  /\ mhd = "active" /\ ~cut
  /\ n \in 1 .. (Len(buf) - off)
  /\ sent' = sent \o SubSeq(buf, off + 1, off + n)
  /\ IF off + n = Len(buf) THEN buf' = <<>> /\ off' = 0 ELSE off' = off + n /\ UNCHANGED buf
  /\ UNCHANGED <<opened, suspended, ended, cut, gone, refs, freed, streams, mhd, app,
                 written, complete, misused>>

\* streamRead with nothing there: out of the loop until somebody resumes it
ReadSuspends ==
  /\ mhd = "active" /\ ~cut /\ ~ended /\ Len(buf) = off
  /\ suspended' = TRUE
  /\ mhd' = "suspended"
  /\ UNCHANGED <<opened, buf, off, ended, cut, gone, refs, freed, streams, app, written,
                 sent, complete, misused>>

\* an active connection is over before its response is: its peer is gone or takes
\* nothing, it cannot be queued, or the daemon is stopped
GiveUp ==
  /\ mhd = "active"
  /\ Destroy
  /\ UNCHANGED <<opened, buf, off, suspended, ended, cut, refs, freed, app, written, sent,
                 complete, misused>>

\* the end of streamFree
DestroyRelease ==
  /\ mhd = "closing"
  /\ mhd' = "closed"
  /\ Release
  /\ UNCHANGED <<opened, buf, off, suspended, ended, cut, gone, streams, app, written,
                 sent, complete, misused>>

-----------------------------------------------------------------------------

Reader == ReadEnds \/ (\E n \in 1 .. MaxWritten : ReadTakes(n)) \/ ReadSuspends

Writer == (\E n \in 1 .. MaxLen : Write(n)) \/ Probe \/ End

-----------------------------------------------------------------------------
(* Properties                                                              *)

Flags ==
  /\ suspended \in BOOLEAN /\ ended \in BOOLEAN /\ cut \in BOOLEAN /\ gone \in BOOLEAN
  /\ freed \in BOOLEAN /\ complete \in BOOLEAN /\ misused \in BOOLEAN

Contents ==
  /\ opened \in {"no", "stream", "null"}
  /\ buf \in Seq(1 .. MaxWritten) /\ sent \in Seq(1 .. MaxWritten)
  /\ off \in Nat /\ refs \in 0 .. 2 /\ streams \in 0 .. 1 /\ written \in 0 .. MaxWritten
  /\ mhd \in {"none", "active", "suspended", "closing", "closed"}
  /\ app \in {"writes", "ending", "done"}

TypeOK == Flags /\ Contents

\* No wake-up is lost between the reader and the writers: a connection is out of
\* libmicrohttpd's loop only while there is nothing for it to do, and the
\* stream's flag says so - it is never suspended twice, nor resumed unsuspended.
SuspendedIdle ==
  /\ ~misused
  /\ suspended /\ ~gone <=> mhd = "suspended"
  /\ mhd = "suspended" => Len(buf) = off /\ ~ended /\ ~cut

\* "a stream with more than this written and not taken by the client is cut"
PendingBounded == Len(buf) - off <= PendingMax

\* The stream is freed by whoever lets go last, and not before both have.
FreedLast == freed <=> app = "done" /\ mhd = "closed"

\* One reference is the application's, one the response's, from the moment both
\* are there; the response and the connection are gone together.
ReferencesHeld ==
  /\ opened # "stream" => mhd = "none" /\ app = "writes" /\ refs = 0
  /\ opened = "stream" =>
       /\ mhd # "none"
       /\ refs = (IF app = "done" THEN 0 ELSE 1) + (IF mhd = "closed" THEN 0 ELSE 1)
  /\ ended <=> app # "writes"
  /\ gone <=> mhd \in {"closing", "closed"}
  /\ streams = IF mhd \in {"active", "suspended"} THEN 1 ELSE 0

\* s counts on from x
Counts(s, x) == \A i \in 1 .. Len(s) : s[i] = x + i

\* The client gets the accepted writes, each once, in order and with no gap, up
\* to where the stream was cut or given up: the buffer goes on where it is; and the
\* end of the stream only after all of them - "what is queued goes out first".
BufferFollows ==
  /\ off <= Len(buf)
  /\ Len(sent) + Len(buf) - off = written
  /\ Counts(sent, 0) /\ Counts(buf, Len(sent) - off)

EndIsLast == complete => gone /\ Len(sent) = written

\* The buffer and the connection, over a well-typed state: the connection sleeps
\* only on an empty buffer, the buffer is bounded however slow the client, and nobody
\* uses a stream that is freed nor is one kept that both have let go.
StreamInv == TypeOK /\ SuspendedIdle /\ PendingBounded /\ FreedLast /\ ReferencesHeld
             /\ BufferFollows /\ EndIsLast
=============================================================================
