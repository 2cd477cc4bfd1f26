------------------------------- MODULE Streams -------------------------------
(***************************************************************************)
(* The streams on a connection (include/nanonet/util.h: ostreambuf,        *)
(* istreambuf, owning_istream, owning_ostream; detail/socket.h: read and   *)
(* write; sys/network.h: connection): an onstream and an instream that     *)
(* share the socket of a connection, used by a thread each, and the peer.  *)
(*                                                                         *)
(* Characters are numbered in the order in which they are put into the     *)
(* onstream or sent by the peer, so that a character shows its place.      *)
(***************************************************************************)
EXTENDS Naturals, Sequences

CONSTANTS
  Size,        \* size of the buffer of an ostreambuf
  InSize,      \* size of the buffer of an istreambuf without its putback area
  SizePb,      \* size_pb, the size of the putback area
  MaxChars,    \* characters in each direction (model bound)
  MaxFailures, \* failing writes (model bound)
  Careful      \* nothing is put into an onstream again after a failure, even
               \* if it is cleared, before a flush was successful

ASSUME StreamsAssumption ==
  /\ Size \in Nat \ {0}
  /\ InSize \in Nat \ {0}
  /\ SizePb \in Nat \ {0}
  /\ MaxChars \in Nat
  /\ MaxFailures \in Nat
  /\ Careful \in BOOLEAN

VARIABLES
  conn,      \* the connection object exists
  o,         \* the onstream: st, buf (pbase() to pptr()), bad (its state)
  written,   \* number of characters put into it
  wire,      \* what the peer receives
  fin,       \* the socket was shut down for writing
  failures,  \* number of failed writes
  partial,   \* one of them had sent a part (history variable)
  i,         \* the instream: st, good (its state), mem (the buffer) and the
             \* positions eback, gptr and egptr in it
  sent,      \* number of characters sent by the peer
  taken,     \* number of characters read from the socket
  pos,       \* characters the application has got, less those it has put back
  high,      \* the maximum of pos so far
  starved    \* a read() has failed or met the end (history variable)

outVars == <<o, written, wire, fin, failures, partial>>
inVars == <<i, sent, taken, pos, high, starved>>
vars == <<conn, outVars, inVars>>

Smaller(a, b) == IF a <= b THEN a ELSE b
Larger(a, b) == IF a >= b THEN a ELSE b

\* The places of the buffer of the instream.
Places == 0..(SizePb + InSize - 1)

Init == /\ conn = TRUE
        /\ o = [st |-> "none", buf |-> <<>>, bad |-> FALSE]
        /\ written = 0 /\ wire = <<>> /\ fin = FALSE
        /\ failures = 0 /\ partial = FALSE
        /\ i = [st |-> "none", good |-> TRUE, mem |-> [p \in Places |-> 0],
                eback |-> SizePb, gptr |-> SizePb, egptr |-> SizePb]
        /\ sent = 0
        /\ taken = 0 /\ pos = 0 /\ high = 0 /\ starved = FALSE

\* The socket is shared by the connection and its streams and is closed with
\* the last of them.
Closed == ~conn /\ o.st # "live" /\ i.st # "live"

\* The connection object may go before its streams.
DropConnection == conn /\ conn' = FALSE /\ UNCHANGED <<outVars, inVars>>

-----------------------------------------------------------------------------
(* onstream *)

\* Mutation: the destructor of the moved-from buffer still owns the socket.
OpenOut_TempShutsDown == /\ conn /\ o.st = "none"
                         /\ o' = [o EXCEPT !.st = "live"]
                         /\ fin' = TRUE
                         /\ UNCHANGED <<conn, inVars, written, wire, failures,
                                        partial>>

\* The constructor moves a temporary ostreambuf into the stream; the destructor
\* of what is left of the temporary does nothing.
OpenOut == /\ conn /\ o.st = "none"
           /\ o' = [o EXCEPT !.st = "live"]
           /\ UNCHANGED <<conn, inVars, written, wire, fin, failures, partial>>

\* socket::write() of b: -1 if not all of it was sent, and what was sent is.
WriteAll(b) == wire' = wire \o b /\ UNCHANGED <<failures, partial>>
WriteFails(b) == /\ failures < MaxFailures
                 /\ failures' = failures + 1
                 /\ \E n \in 0..(Len(b) - 1) :
                      /\ wire' = wire \o SubSeq(b, 1, n)
                      /\ partial' = (partial \/ n > 0)

\* Mutation: the buffer is emptied even if it was not written.
Flush_Drops(b, st) ==
  \/ b = <<>> /\ o' = [o EXCEPT !.st = st] /\ UNCHANGED <<wire, failures, partial>>
  \/ b # <<>> /\ WriteAll(b) /\ o' = [o EXCEPT !.st = st, !.buf = <<>>]
  \/ b # <<>> /\ WriteFails(b) /\ o' = [o EXCEPT !.st = st, !.buf = <<>>, !.bad = TRUE]

\* flush() of the buffer with the contents b; a failure keeps all of them.
Flush(b, st) ==
  \/ b = <<>> /\ o' = [o EXCEPT !.st = st] /\ UNCHANGED <<wire, failures, partial>>
  \/ b # <<>> /\ WriteAll(b) /\ o' = [o EXCEPT !.st = st, !.buf = <<>>]
  \/ b # <<>> /\ WriteFails(b) /\ o' = [o EXCEPT !.st = st, !.buf = b, !.bad = TRUE]

\* The put area is one character shorter than the buffer.
Fits == Len(o.buf) < Size - 1

\* A character is put into the put area, or overflow() puts it behind that and
\* flushes.
Put == /\ o.st = "live" /\ ~o.bad
       /\ Careful => Len(o.buf) < Size
       /\ written < MaxChars
       /\ written' = written + 1
       /\ LET b == Append(o.buf, written + 1) IN
          \/ /\ Fits
             /\ o' = [o EXCEPT !.buf = b]
             /\ UNCHANGED <<wire, failures, partial>>
          \/ ~Fits /\ Flush(b, "live")
       /\ UNCHANGED <<conn, inVars, fin>>

\* std::flush: sync()
Sync == /\ o.st = "live" /\ ~o.bad
        /\ Flush(o.buf, "live")
        /\ UNCHANGED <<conn, inVars, written, fin>>

\* clear(), or a move of the stream, whose state is not moved along.
ClearOut == /\ o.st = "live" /\ o.bad
            /\ o' = [o EXCEPT !.bad = FALSE]
            /\ UNCHANGED <<conn, inVars, written, wire, fin, failures, partial>>

\* ~ostreambuf(): a last sync(), whose failure nobody learns of, and the end of
\* the data for the peer.
DestroyOut == /\ o.st = "live"
              /\ Flush(o.buf, "gone")
              /\ fin' = TRUE
              /\ UNCHANGED <<conn, inVars, written>>

-----------------------------------------------------------------------------
(* instream *)

OpenIn == /\ conn /\ i.st = "none"
          /\ i' = [i EXCEPT !.st = "live"]
          /\ UNCHANGED <<conn, outVars, sent, taken, pos, high, starved>>

\* A character is got from the buffer, after an underflow() if there was none.
Get == /\ i.st = "live" /\ i.good
       /\ i.gptr < i.egptr
       /\ i' = [i EXCEPT !.gptr = @ + 1]
       /\ pos' = pos + 1
       /\ high' = Larger(high, pos + 1)
       /\ UNCHANGED <<conn, outVars, sent, taken, starved>>

\* Mutation: all characters that were got are kept.
NPutback_Unclamped == i.gptr - i.eback

\* underflow(): the last characters are moved into the putback area first.
NPutback == Smaller(i.gptr - i.eback, SizePb)
Memmove == [p \in Places |-> IF p \in (SizePb - NPutback)..(SizePb - 1)
                               THEN i.mem[p + i.gptr - SizePb] ELSE i.mem[p]]

\* Mutation: read() is given a pointer one place too far.
Refill_TooFar(n) ==
  [i EXCEPT !.mem = [p \in Places |->
                       IF p \in SizePb..(SizePb + n - 1)
                         THEN taken + p - SizePb ELSE Memmove[p]],
            !.eback = SizePb - NPutback, !.gptr = SizePb, !.egptr = SizePb + n]

\* Mutation: the putback area is not filled.
Refill_NoMove(n) ==
  [i EXCEPT !.mem = [p \in Places |->
                       IF p \in SizePb..(SizePb + n - 1)
                         THEN taken + p - SizePb + 1 ELSE i.mem[p]],
            !.eback = SizePb - NPutback, !.gptr = SizePb, !.egptr = SizePb + n]

\* The instream after a read() of n characters.
Refill(n) ==
  [i EXCEPT !.mem = [p \in Places |->
                       IF p \in SizePb..(SizePb + n - 1)
                         THEN taken + p - SizePb + 1 ELSE Memmove[p]],
            !.eback = SizePb - NPutback, !.gptr = SizePb, !.egptr = SizePb + n]

Underflow == /\ i.st = "live" /\ i.good
             /\ i.gptr = i.egptr
             /\ \E n \in 1..Smaller(InSize, sent - taken) :
                  /\ i' = Refill(n)
                  /\ taken' = taken + n
             /\ UNCHANGED <<conn, outVars, sent, pos, high, starved>>

\* read() <= 0: the end of the data, a timeout or an error, which may happen at
\* any time and look the same to the application.  The positions are left
\* alone, the buffer is not.
UnderflowFails == /\ i.st = "live" /\ i.good
                  /\ i.gptr = i.egptr
                  /\ i' = [i EXCEPT !.mem = Memmove, !.good = FALSE]
                  /\ starved' = TRUE
                  /\ UNCHANGED <<conn, outVars, sent, taken, pos, high>>

ClearIn == /\ i.st = "live" /\ ~i.good
           /\ i' = [i EXCEPT !.good = TRUE]
           /\ UNCHANGED <<conn, outVars, sent, taken, pos, high, starved>>

\* unget(), which fails at the beginning of the putback area.
Unget == /\ i.st = "live" /\ i.good
         /\ \/ /\ i.eback < i.gptr
               /\ i' = [i EXCEPT !.gptr = @ - 1]
               /\ pos' = pos - 1
            \/ /\ i.eback = i.gptr
               /\ i' = [i EXCEPT !.good = FALSE]
               /\ UNCHANGED pos
         /\ UNCHANGED <<conn, outVars, sent, taken, high, starved>>

\* ~istreambuf(): shutdown_read().
DestroyIn == /\ i.st = "live"
             /\ i' = [i EXCEPT !.st = "gone"]
             /\ UNCHANGED <<conn, outVars, sent, taken, pos, high, starved>>

-----------------------------------------------------------------------------
(* The peer *)

PeerSends == /\ ~Closed
             /\ sent < MaxChars
             /\ sent' = sent + 1
             /\ UNCHANGED <<conn, outVars, i, taken, pos, high, starved>>

Next == \/ DropConnection
        \/ OpenOut \/ Put \/ Sync \/ ClearOut \/ DestroyOut
        \/ OpenIn \/ Get \/ Underflow \/ UnderflowFails \/ ClearIn \/ Unget
        \/ DestroyIn
        \/ PeerSends

Spec == Init /\ [][Next]_vars

-----------------------------------------------------------------------------
(* Properties *)

\* Every variable has its type; the positions in the buffers are in order and
\* inside of them, as flush() and read() take for granted.
TypeOK ==
  /\ conn \in BOOLEAN
  /\ o \in [st : {"none", "live", "gone"}, buf : Seq(1..MaxChars), bad : BOOLEAN]
  /\ Careful => Len(o.buf) <= Size
  /\ written \in 0..MaxChars
  /\ wire \in Seq(1..MaxChars)
  /\ fin \in BOOLEAN /\ partial \in BOOLEAN /\ starved \in BOOLEAN
  /\ failures \in 0..MaxFailures
  /\ i \in [st : {"none", "live", "gone"}, good : BOOLEAN,
            mem : [Places -> 0..MaxChars], eback : 0..SizePb,
            gptr : 0..(SizePb + InSize), egptr : SizePb..(SizePb + InSize)]
  /\ i.eback <= i.gptr /\ i.gptr <= i.egptr
  /\ sent \in 0..MaxChars /\ taken \in 0..sent
  /\ pos \in 0..taken /\ high \in pos..taken

\* What was put into the onstream is on its way or in the buffer, each character
\* once and in order, through any sequence of failing and repeated flushes, unless
\* a write sent a part and failed; and once the stream is destroyed without
\* failures, everything is on its way.
WireExact ==
  ~partial => /\ wire \o o.buf = [n \in 1..written |-> n]
              /\ o.st = "gone" /\ failures = 0 => o.buf = <<>>

\* The peer sees the end of the data, by shutdown or close, only after the
\* onstream is gone, wherever the connection object and the instream are; and it
\* does see it then.
NoEarlyEnd == /\ o.st = "live" => ~(fin \/ Closed)
              /\ o.st = "gone" => fin

\* The place in the peer's data of the character at p.
Index(p) == pos + p + 1 - i.gptr

\* Characters the application has not got before are the next ones the peer has
\* sent, whatever reads have failed and whatever was put back in between.
FreshRight ==
  /\ taken = pos + i.egptr - i.gptr
  /\ \A p \in i.gptr..(i.egptr - 1) : Index(p) > high => i.mem[p] = Index(p)

\* Characters that are put back are the ones that were got, across the ends of
\* buffers, as long as no read has failed.
PutbackRight ==
  ~starved => \A p \in i.eback..(i.egptr - 1) : i.mem[p] = Index(p)
=============================================================================
