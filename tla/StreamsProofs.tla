---------------------------- MODULE StreamsProofs ----------------------------
(***************************************************************************)
(* Proofs about Streams.  The onstream and the instream do not disturb     *)
(* each other, so each has an inductive invariant of its own.              *)
(***************************************************************************)
EXTENDS Streams, SequenceTheorems, TLAPS

-----------------------------------------------------------------------------
(* The onstream *)

OutType ==
  /\ o \in [st : {"none", "live", "gone"}, buf : Seq(1..MaxChars), bad : BOOLEAN]
  /\ Careful => Len(o.buf) <= Size
  /\ written \in 0..MaxChars
  /\ wire \in Seq(1..MaxChars)
  /\ fin \in BOOLEAN
  /\ partial \in BOOLEAN
  /\ failures \in 0..MaxFailures

\* The socket is shut down exactly if the stream is gone, and what the stream
\* has accepted is on the wire or in its buffer.
OutInv ==
  /\ OutType
  /\ fin <=> o.st = "gone"
  /\ ~partial => wire \o o.buf = [n \in 1..written |-> n]
  /\ o.st = "gone" /\ failures = 0 => o.buf = <<>>

\* The numbers of the first k characters.
LEMMA NextNumber ==
  ASSUME NEW k \in Nat
  PROVE  Append([n \in 1..k |-> n], k + 1) = [n \in 1..(k + 1) |-> n]
  <1> DEFINE s == [n \in 1..k |-> n]
             t == [n \in 1..(k + 1) |-> n]
  <1>1. s \in Seq(Nat) /\ Len(s) = k /\ t \in Seq(Nat) /\ Len(t) = k + 1
    OBVIOUS
  <1>2. \A n \in 1..k : s[n] = n
    OBVIOUS
  <1>3. \A n \in 1..(k + 1) : t[n] = n
    OBVIOUS
  <1> HIDE DEF s, t
  <1>4. /\ Append(s, k + 1) \in Seq(Nat) /\ Len(Append(s, k + 1)) = k + 1
        /\ \A n \in 1..k : Append(s, k + 1)[n] = s[n]
        /\ Append(s, k + 1)[k + 1] = k + 1
    BY <1>1
  <1>5. \A n \in 1..(k + 1) : Append(s, k + 1)[n] = t[n]
    BY <1>2, <1>3, <1>4
  <1>6. Append(s, k + 1) = t
    BY <1>1, <1>4, <1>5, SeqEqual
  <1> QED BY <1>6 DEF s, t

\* A character put at the end of the buffer is put at the end of everything.
LEMMA AppendCat ==
  ASSUME NEW S, NEW s \in Seq(S), NEW t \in Seq(S), NEW e \in S
  PROVE  s \o Append(t, e) = Append(s \o t, e)
  <1>1. Append(t, e) = t \o <<e>> /\ <<e>> \in Seq(S) /\ s \o t \in Seq(S)
    BY AppendIsConcat, ConcatProperties
  <1>2. Append(s \o t, e) = (s \o t) \o <<e>>
    BY <1>1, AppendIsConcat
  <1>3. s \o (t \o <<e>>) = (s \o t) \o <<e>>
    BY <1>1, ConcatAssociative
  <1> QED BY <1>1, <1>2, <1>3

LEMMA CatEmpty ==
  ASSUME NEW S, NEW s \in Seq(S)
  PROVE  s \o << >> = s
  OBVIOUS

LEMMA SubSeqSeq ==
  ASSUME NEW S, NEW s \in Seq(S), NEW n \in 0..(Len(s) - 1)
  PROVE  SubSeq(s, 1, n) \in Seq(S) /\ (n = 0 => SubSeq(s, 1, n) = << >>)
  OBVIOUS

\* flush() keeps the invariant, whatever it writes.
LEMMA FlushInv ==
  ASSUME StreamsAssumption, OutType,
         NEW b \in Seq(1..MaxChars), NEW st \in {"live", "gone"},
         NEW w \in 0..MaxChars,
         Careful => Len(b) <= Size,
         ~partial => wire \o b = [n \in 1..w |-> n],
         b = << >> => o.buf = << >>,
         Flush(b, st)
  PROVE  /\ o' \in [st : {"none", "live", "gone"}, buf : Seq(1..MaxChars), bad : BOOLEAN]
         /\ Careful => Len(o'.buf) <= Size
         /\ wire' \in Seq(1..MaxChars)
         /\ partial' \in BOOLEAN
         /\ failures' \in 0..MaxFailures
         /\ o'.st = st
         /\ ~partial' => wire' \o o'.buf = [n \in 1..w |-> n]
         /\ failures' = 0 => o'.buf = << >>
  <1> USE DEF OutType
  <1>1. CASE b = << >> /\ o' = [o EXCEPT !.st = st] /\ UNCHANGED <<wire, failures, partial>>
    BY <1>1
  <1>2. CASE b # << >> /\ WriteAll(b) /\ o' = [o EXCEPT !.st = st, !.buf = << >>]
    <2>1. wire' = wire \o b /\ wire' \in Seq(1..MaxChars) /\ UNCHANGED <<failures, partial>>
      BY <1>2 DEF WriteAll
    <2>2. wire' \o << >> = wire'
      BY <2>1, CatEmpty
    <2>3. o'.buf = << >> /\ o'.st = st /\ o'.bad = o.bad
      BY <1>2
    <2>4. o' \in [st : {"none", "live", "gone"}, buf : Seq(1..MaxChars), bad : BOOLEAN]
      <3>1. << >> \in Seq(1..MaxChars)
        OBVIOUS
      <3> QED BY <3>1, <1>2
    <2> QED BY <2>1, <2>2, <2>3, <2>4 DEF StreamsAssumption
  <1>3. CASE b # << >> /\ WriteFails(b) /\ o' = [o EXCEPT !.st = st, !.buf = b, !.bad = TRUE]
    <2>1. failures' \in 1..MaxFailures
      BY <1>3 DEF WriteFails, StreamsAssumption
    <2>2. PICK n \in 0..(Len(b) - 1) : /\ wire' = wire \o SubSeq(b, 1, n)
                                       /\ partial' = (partial \/ n > 0)
      BY <1>3 DEF WriteFails
    <2>3. wire' \in Seq(1..MaxChars) /\ (n = 0 => wire' = wire)
      BY <2>2, SubSeqSeq, CatEmpty
    <2>4. o'.buf = b /\ o'.st = st
          /\ o' \in [st : {"none", "live", "gone"}, buf : Seq(1..MaxChars), bad : BOOLEAN]
      BY <1>3
    <2>5. n > 0 \/ (n = 0 /\ ~(n > 0))
      OBVIOUS
    <2>6. partial' \in BOOLEAN /\ (~partial' => ~partial /\ n = 0)
      BY <2>2, <2>5, Zenon
    <2>7. failures' # 0 /\ failures' \in 0..MaxFailures
      BY <2>1
    <2>8. ~partial' => wire' \o o'.buf = [m \in 1..w |-> m]
      <3>1. ~partial' => wire' = wire /\ wire \o b = [m \in 1..w |-> m]
        BY <2>3, <2>6, Zenon
      <3> QED BY <3>1, <2>4, Zenon
    <2> QED BY <2>3, <2>4, <2>6, <2>7, <2>8, Zenon
  <1> QED BY <1>1, <1>2, <1>3 DEF Flush

LEMMA PutOut ==
  ASSUME StreamsAssumption, OutInv, Put
  PROVE  OutInv'
  <1> USE DEF StreamsAssumption
  <1> DEFINE b == Append(o.buf, written + 1)
  <1>1. OutType /\ o.buf \in Seq(1..MaxChars) /\ written + 1 \in 1..MaxChars
        /\ written' = written + 1 /\ fin' = fin /\ o.st = "live"
    BY DEF OutInv, OutType, Put
  <1>2. /\ b \in Seq(1..MaxChars) /\ b # << >> /\ Len(b) = Len(o.buf) + 1
    BY <1>1, AppendProperties
  <1>3. Careful => Len(b) <= Size
    BY <1>1, <1>2 DEF Put
  <1>4. ~partial => wire \o b = [n \in 1..(written + 1) |-> n]
    <2> SUFFICES ASSUME ~partial PROVE wire \o b = [n \in 1..(written + 1) |-> n]
      OBVIOUS
    <2>1. wire \o o.buf = [n \in 1..written |-> n]
      BY DEF OutInv
    <2>2. wire \o b = Append(wire \o o.buf, written + 1)
      BY <1>1, AppendCat DEF OutType
    <2>3. Append([n \in 1..written |-> n], written + 1) = [n \in 1..(written + 1) |-> n]
      BY <1>1, NextNumber DEF OutType
    <2> QED BY <2>1, <2>2, <2>3, Zenon
  <1>5. fin <=> o.st = "gone"
    BY DEF OutInv
  <1> HIDE DEF b
  <1>6. CASE o' = [o EXCEPT !.buf = b] /\ UNCHANGED <<wire, failures, partial>>
    <2>1. o'.buf = b /\ o'.st = "live" /\ wire' = wire /\ partial' = partial
          /\ failures' = failures
      BY <1>6, <1>1 DEF OutType
    <2>2. OutType'
      <3>1. o' \in [st : {"none", "live", "gone"}, buf : Seq(1..MaxChars), bad : BOOLEAN]
        BY <1>1, <1>2, <1>6 DEF OutType
      <3>2. (Careful => Len(o'.buf) <= Size) /\ written' \in 0..MaxChars
        BY <1>1, <1>3, <2>1
      <3> QED BY <1>1, <2>1, <3>1, <3>2, Zenon DEF OutType
    <2> QED BY <1>1, <1>4, <1>5, <2>1, <2>2 DEF OutInv
  <1>7. CASE Flush(b, "live")
    <2> DEFINE w == written + 1
    <2>1. w \in 0..MaxChars /\ (~partial => wire \o b = [n \in 1..w |-> n])
      BY <1>1, <1>4
    <2>2. /\ o' \in [st : {"none", "live", "gone"}, buf : Seq(1..MaxChars), bad : BOOLEAN]
          /\ Careful => Len(o'.buf) <= Size
          /\ wire' \in Seq(1..MaxChars)
          /\ partial' \in BOOLEAN
          /\ failures' \in 0..MaxFailures
          /\ o'.st = "live"
          /\ ~partial' => wire' \o o'.buf = [n \in 1..w |-> n]
      BY <1>1, <1>2, <1>3, <1>4, <1>7, <2>1, FlushInv
    <2>3. OutType'
      BY <1>1, <2>2 DEF OutType
    <2> QED BY <1>1, <1>5, <2>2, <2>3 DEF OutInv
  <1> QED BY <1>6, <1>7 DEF Put, b

LEMMA SyncOut ==
  ASSUME StreamsAssumption, OutInv, Sync
  PROVE  OutInv'
  <1>1. OutType /\ o.buf \in Seq(1..MaxChars) /\ written \in 0..MaxChars
        /\ written' = written /\ fin' = fin /\ o.st = "live" /\ Flush(o.buf, "live")
    BY DEF OutInv, OutType, Sync
  <1>2. /\ o' \in [st : {"none", "live", "gone"}, buf : Seq(1..MaxChars), bad : BOOLEAN]
        /\ Careful => Len(o'.buf) <= Size
        /\ wire' \in Seq(1..MaxChars)
        /\ partial' \in BOOLEAN
        /\ failures' \in 0..MaxFailures
        /\ o'.st = "live"
        /\ ~partial' => wire' \o o'.buf = [n \in 1..written |-> n]
    BY <1>1, FlushInv DEF OutInv, OutType
  <1>3. OutType'
    BY <1>1, <1>2 DEF OutType
  <1> QED BY <1>1, <1>2, <1>3 DEF OutInv

LEMMA DestroyOutOut ==
  ASSUME StreamsAssumption, OutInv, DestroyOut
  PROVE  OutInv'
  <1>1. OutType /\ o.buf \in Seq(1..MaxChars) /\ written \in 0..MaxChars
        /\ written' = written /\ fin' = TRUE /\ Flush(o.buf, "gone")
    BY DEF OutInv, OutType, DestroyOut
  <1>2. /\ o' \in [st : {"none", "live", "gone"}, buf : Seq(1..MaxChars), bad : BOOLEAN]
        /\ Careful => Len(o'.buf) <= Size
        /\ wire' \in Seq(1..MaxChars)
        /\ partial' \in BOOLEAN
        /\ failures' \in 0..MaxFailures
        /\ o'.st = "gone"
        /\ ~partial' => wire' \o o'.buf = [n \in 1..written |-> n]
        /\ failures' = 0 => o'.buf = << >>
    BY <1>1, FlushInv DEF OutInv, OutType
  <1>3. OutType'
    BY <1>1, <1>2 DEF OutType
  <1> QED BY <1>1, <1>2, <1>3 DEF OutInv

LEMMA OpenClearOut ==
  ASSUME OutInv, OpenOut \/ ClearOut
  PROVE  OutInv'
  <1>1. /\ UNCHANGED <<written, wire, fin, failures, partial>>
        /\ o'.buf = o.buf /\ o'.st = "live" /\ o.st # "gone"
        /\ o' \in [st : {"none", "live", "gone"}, buf : Seq(1..MaxChars), bad : BOOLEAN]
    BY DEF OutInv, OutType, OpenOut, ClearOut
  <1>2. OutType'
    BY <1>1 DEF OutInv, OutType
  <1> QED BY <1>1, <1>2 DEF OutInv

\* Nothing but the actions of the onstream changes its part of the state.
LEMMA OutStep ==
  ASSUME StreamsAssumption, OutInv, [Next]_vars
  PROVE  OutInv'
  <1>1. UNCHANGED outVars => OutInv'
    <2> SUFFICES ASSUME UNCHANGED outVars PROVE OutInv'
      OBVIOUS
    <2>1. UNCHANGED <<o, written, wire, fin, failures, partial>>
      BY Zenon DEF outVars
    <2>2. OutType'
      BY <2>1, Zenon DEF OutInv, OutType
    <2>3. ~partial' => wire' \o o'.buf = [n \in 1..written' |-> n]
      BY <2>1 DEF OutInv
    <2> QED BY <2>1, <2>2, <2>3 DEF OutInv
  <1>2. \/ UNCHANGED outVars \/ Put \/ Sync \/ DestroyOut \/ OpenOut \/ ClearOut
    BY DEF Next, vars, DropConnection, OpenIn, Get, Underflow, UnderflowFails,
           ClearIn, Unget, DestroyIn, PeerSends
  <1> QED BY <1>1, <1>2, PutOut, SyncOut, DestroyOutOut, OpenClearOut

LEMMA OutInit ==
  ASSUME StreamsAssumption, Init
  PROVE  OutInv
  <1>1. OutType
    <2>1. /\ 0 \in 0..MaxChars /\ 0 \in 0..MaxFailures
          /\ << >> \in Seq(1..MaxChars) /\ Len(<< >>) <= Size
      BY DEF StreamsAssumption
    <2>2. o \in [st : {"none", "live", "gone"}, buf : Seq(1..MaxChars), bad : BOOLEAN]
          /\ o.buf = << >>
      BY <2>1 DEF Init
    <2> QED BY <2>1, <2>2, Zenon DEF Init, OutType
  <1>2. wire \o o.buf = [n \in 1..written |-> n]
    <2>1. wire = << >> /\ o.buf = << >> /\ written = 0
      BY DEF Init
    <2>2. << >> \o << >> = << >>
      BY CatEmpty, EmptySeq
    <2>3. [n \in 1..0 |-> n] = << >>
      OBVIOUS
    <2> QED BY <2>1, <2>2, <2>3
  <1> QED BY <1>1, <1>2 DEF OutInv, Init

-----------------------------------------------------------------------------
(* The instream *)

InType ==
  /\ i \in [st : {"none", "live", "gone"}, good : BOOLEAN,
            mem : [Places -> 0..MaxChars], eback : 0..SizePb,
            gptr : 0..(SizePb + InSize), egptr : SizePb..(SizePb + InSize)]
  /\ i.eback <= i.gptr /\ i.gptr <= i.egptr
  /\ sent \in 0..MaxChars /\ taken \in 0..sent
  /\ pos \in 0..taken /\ high \in pos..taken
  /\ starved \in BOOLEAN

\* No more characters can be put back than were got.
InInv ==
  /\ InType
  /\ i.gptr - i.eback <= pos
  /\ FreshRight
  /\ PutbackRight

LEMMA InInit ==
  ASSUME StreamsAssumption, Init
  PROVE  InInv
  <1>1. i = [st |-> "none", good |-> TRUE, mem |-> [p \in Places |-> 0],
             eback |-> SizePb, gptr |-> SizePb, egptr |-> SizePb]
        /\ sent = 0 /\ taken = 0 /\ pos = 0 /\ high = 0 /\ starved = FALSE
    BY DEF Init
  <1>2. InType
    <2>1. /\ SizePb \in 0..SizePb /\ SizePb \in 0..(SizePb + InSize)
          /\ SizePb \in SizePb..(SizePb + InSize) /\ SizePb <= SizePb
          /\ 0 \in 0..MaxChars /\ 0 \in 0..0
      BY DEF StreamsAssumption
    <2>2. [p \in Places |-> 0] \in [Places -> 0..MaxChars]
      BY <2>1
    <2>3. i \in [st : {"none", "live", "gone"}, good : BOOLEAN,
                 mem : [Places -> 0..MaxChars], eback : 0..SizePb,
                 gptr : 0..(SizePb + InSize), egptr : SizePb..(SizePb + InSize)]
      BY <1>1, <2>1, <2>2
    <2> QED BY <1>1, <2>1, <2>3 DEF InType
  <1> QED BY <1>1, <1>2 DEF StreamsAssumption, InInv, FreshRight, PutbackRight

LEMMA GetIn ==
  ASSUME StreamsAssumption, InInv, Get
  PROVE  InInv'
  <1> USE DEF StreamsAssumption
  <1>1. /\ i' = [i EXCEPT !.gptr = @ + 1] /\ i.gptr < i.egptr
        /\ pos' = pos + 1 /\ high' = Larger(high, pos + 1)
        /\ sent' = sent /\ taken' = taken /\ starved' = starved
    BY DEF Get
  <1>2. /\ i'.mem = i.mem /\ i'.eback = i.eback /\ i'.gptr = i.gptr + 1
        /\ i'.egptr = i.egptr
        /\ i.eback \in Nat /\ i.gptr \in Nat /\ i.egptr \in Nat
    BY <1>1 DEF InInv, InType
  <1>3. InType'
    BY <1>1, <1>2 DEF InInv, InType, FreshRight, Larger
  <1>4. FreshRight'
    BY <1>1, <1>2 DEF InInv, InType, FreshRight, Larger, Index
  <1>5. PutbackRight'
    BY <1>1, <1>2 DEF InInv, InType, PutbackRight, Index
  <1> QED BY <1>1, <1>2, <1>3, <1>4, <1>5 DEF InInv, InType

LEMMA UngetIn ==
  ASSUME StreamsAssumption, InInv, Unget
  PROVE  InInv'
  <1> USE DEF StreamsAssumption
  <1>1. sent' = sent /\ taken' = taken /\ starved' = starved /\ high' = high
    BY DEF Unget
  <1>2. CASE i.eback < i.gptr /\ i' = [i EXCEPT !.gptr = @ - 1] /\ pos' = pos - 1
    <2>1. /\ i'.mem = i.mem /\ i'.eback = i.eback /\ i'.gptr = i.gptr - 1
          /\ i'.egptr = i.egptr
          /\ i.eback \in Nat /\ i.gptr \in Nat /\ i.egptr \in Nat
      BY <1>2 DEF InInv, InType
    <2>2. InType'
      BY <1>1, <1>2, <2>1 DEF InInv, InType, FreshRight
    <2>3. FreshRight'
      BY <1>1, <1>2, <2>1 DEF InInv, InType, FreshRight, Index
    <2>4. PutbackRight'
      BY <1>1, <1>2, <2>1 DEF InInv, InType, PutbackRight, Index
    <2> QED BY <1>1, <1>2, <2>1, <2>2, <2>3, <2>4 DEF InInv, InType
  <1>3. CASE i' = [i EXCEPT !.good = FALSE] /\ pos' = pos
    <2>1. /\ i'.mem = i.mem /\ i'.eback = i.eback /\ i'.gptr = i.gptr
          /\ i'.egptr = i.egptr
      BY <1>3 DEF InInv, InType
    <2>2. InType'
      BY <1>1, <1>3, <2>1 DEF InInv, InType
    <2> QED BY <1>1, <1>3, <2>1, <2>2 DEF InInv, FreshRight, PutbackRight, Index
  <1> QED BY <1>2, <1>3 DEF Unget

\* The characters moved into the putback area keep their order.
LEMMA Moved ==
  ASSUME StreamsAssumption, InInv
  PROVE  /\ NPutback \in 0..SizePb /\ NPutback <= i.gptr - i.eback
         /\ Memmove \in [Places -> 0..MaxChars]
         /\ \A p \in (SizePb - NPutback)..(SizePb - 1) :
              Memmove[p] = i.mem[p + i.gptr - SizePb]
  <1> USE DEF StreamsAssumption
  <1>1. /\ i.eback \in 0..SizePb /\ i.gptr \in 0..(SizePb + InSize)
        /\ i.eback <= i.gptr /\ i.mem \in [Places -> 0..MaxChars]
    BY DEF InInv, InType
  <1>2. NPutback \in 0..SizePb /\ NPutback <= i.gptr - i.eback
    BY <1>1 DEF NPutback, Smaller
  <1>3. \A p \in (SizePb - NPutback)..(SizePb - 1) :
          p \in Places /\ p + i.gptr - SizePb \in Places
    BY <1>1, <1>2 DEF Places
  <1>4. Memmove \in [Places -> 0..MaxChars]
    BY <1>1, <1>3 DEF Memmove
  <1>5. \A p \in (SizePb - NPutback)..(SizePb - 1) :
          Memmove[p] = i.mem[p + i.gptr - SizePb]
    BY <1>3 DEF Memmove
  <1> QED BY <1>2, <1>4, <1>5

LEMMA UnderflowIn ==
  ASSUME StreamsAssumption, InInv, Underflow
  PROVE  InInv'
  <1> USE DEF StreamsAssumption
  <1>1. PICK n \in 1..Smaller(InSize, sent - taken) : i' = Refill(n) /\ taken' = taken + n
    BY DEF Underflow
  <1>2. /\ sent' = sent /\ pos' = pos /\ high' = high /\ starved' = starved
        /\ i.gptr = i.egptr
    BY DEF Underflow
  <1>3. /\ i.eback \in 0..SizePb /\ i.gptr \in SizePb..(SizePb + InSize)
        /\ i.eback <= i.gptr /\ i.mem \in [Places -> 0..MaxChars]
        /\ sent \in 0..MaxChars /\ taken \in 0..sent
        /\ pos = taken /\ high = taken
    BY <1>2 DEF InInv, InType, FreshRight
  <1>4. n \in 1..InSize /\ taken + n <= sent
    BY <1>3 DEF Smaller
  <1> DEFINE m == [p \in Places |-> IF p \in SizePb..(SizePb + n - 1)
                                      THEN taken + p - SizePb + 1 ELSE Memmove[p]]
  <1>5. /\ NPutback \in 0..SizePb /\ NPutback <= i.gptr - i.eback
        /\ Memmove \in [Places -> 0..MaxChars]
        /\ \A p \in (SizePb - NPutback)..(SizePb - 1) :
             Memmove[p] = i.mem[p + i.gptr - SizePb]
    BY Moved
  <1>6. m \in [Places -> 0..MaxChars]
    BY <1>3, <1>4, <1>5
  <1>7. \A p \in SizePb..(SizePb + n - 1) : p \in Places /\ m[p] = taken + p - SizePb + 1
    BY <1>4 DEF Places
  <1>8. \A p \in (SizePb - NPutback)..(SizePb - 1) :
          m[p] = i.mem[p + i.gptr - SizePb]
    BY <1>4, <1>5 DEF Places
  <1>9. /\ i'.mem = m /\ i'.eback = SizePb - NPutback /\ i'.gptr = SizePb
        /\ i'.egptr = SizePb + n /\ i'.st = i.st /\ i'.good = i.good
        /\ i' = [i EXCEPT !.mem = m, !.eback = SizePb - NPutback, !.gptr = SizePb,
                          !.egptr = SizePb + n]
    BY <1>1 DEF InInv, InType, Refill
  <1> HIDE DEF m
  <1>10. i' \in [st : {"none", "live", "gone"}, good : BOOLEAN,
                 mem : [Places -> 0..MaxChars], eback : 0..SizePb,
                 gptr : 0..(SizePb + InSize), egptr : SizePb..(SizePb + InSize)]
    <2>1. /\ SizePb - NPutback \in 0..SizePb /\ SizePb \in 0..(SizePb + InSize)
          /\ SizePb + n \in SizePb..(SizePb + InSize)
      BY <1>4, <1>5
    <2>2. i \in [st : {"none", "live", "gone"}, good : BOOLEAN,
                 mem : [Places -> 0..MaxChars], eback : 0..SizePb,
                 gptr : 0..(SizePb + InSize), egptr : SizePb..(SizePb + InSize)]
      BY DEF InInv, InType
    <2> QED BY <2>1, <2>2, <1>6, <1>9
  <1>11. InType'
    BY <1>1, <1>2, <1>3, <1>4, <1>5, <1>9, <1>10 DEF InInv, InType
  <1>12. FreshRight'
    BY <1>1, <1>2, <1>3, <1>4, <1>7, <1>9 DEF FreshRight, Index
  <1>13. PutbackRight'
    <2> SUFFICES ASSUME ~starved, NEW p \in (SizePb - NPutback)..(SizePb + n - 1)
                 PROVE  m[p] = pos + p + 1 - SizePb
      BY <1>2, <1>9 DEF PutbackRight, Index
    <2>1. CASE p >= SizePb
      BY <2>1, <1>3, <1>4, <1>5, <1>7
    <2>2. CASE p < SizePb
      <3> DEFINE q == p + i.gptr - SizePb
      <3>1. q \in i.eback..(i.egptr - 1)
        BY <2>2, <1>2, <1>3, <1>4, <1>5
      <3>2. i.mem[q] = pos + q + 1 - i.gptr
        BY <3>1 DEF InInv, PutbackRight, Index
      <3>3. m[p] = i.mem[q]
        BY <2>2, <1>4, <1>5, <1>8
      <3> QED BY <3>2, <3>3, <1>3, <1>4, <1>5
    <2> QED BY <2>1, <2>2, <1>4, <1>5
  <1> QED BY <1>2, <1>3, <1>5, <1>9, <1>11, <1>12, <1>13 DEF InInv, InType

\* A failed read moves the putback area, but all characters were got before.
LEMMA UnderflowFailsIn ==
  ASSUME StreamsAssumption, InInv, UnderflowFails
  PROVE  InInv'
  <1> USE DEF StreamsAssumption
  <1>1. /\ sent' = sent /\ taken' = taken /\ pos' = pos /\ high' = high
        /\ starved' = TRUE /\ i.gptr = i.egptr
        /\ i' = [i EXCEPT !.mem = Memmove, !.good = FALSE]
    BY DEF UnderflowFails
  <1>2. /\ i'.mem = Memmove /\ i'.eback = i.eback /\ i'.gptr = i.gptr
        /\ i'.egptr = i.egptr
    BY <1>1 DEF InInv, InType
  <1>3. i' \in [st : {"none", "live", "gone"}, good : BOOLEAN,
                mem : [Places -> 0..MaxChars], eback : 0..SizePb,
                gptr : 0..(SizePb + InSize), egptr : SizePb..(SizePb + InSize)]
    BY <1>1, Moved DEF InInv, InType
  <1>4. InType'
    BY <1>1, <1>2, <1>3 DEF InInv, InType
  <1>5. FreshRight'
    <2>1. i.gptr..(i.egptr - 1) = {}
      BY <1>1 DEF InInv, InType
    <2> QED BY <2>1, <1>1, <1>2 DEF InInv, FreshRight
  <1>6. PutbackRight'
    BY <1>1 DEF PutbackRight
  <1> QED BY <1>1, <1>2, <1>4, <1>5, <1>6 DEF InInv

\* Construction, destruction and clear() leave the buffer alone.
LEMMA SwitchIn ==
  ASSUME InInv, OpenIn \/ ClearIn \/ DestroyIn
  PROVE  InInv'
  <1>1. /\ sent' = sent /\ taken' = taken /\ pos' = pos /\ high' = high
        /\ starved' = starved
        /\ i'.mem = i.mem /\ i'.eback = i.eback /\ i'.gptr = i.gptr
        /\ i'.egptr = i.egptr
        /\ i' \in [st : {"none", "live", "gone"}, good : BOOLEAN,
                   mem : [Places -> 0..MaxChars], eback : 0..SizePb,
                   gptr : 0..(SizePb + InSize), egptr : SizePb..(SizePb + InSize)]
    BY DEF InInv, InType, OpenIn, ClearIn, DestroyIn
  <1>2. InType'
    BY <1>1 DEF InInv, InType
  <1> QED BY <1>1, <1>2 DEF InInv, FreshRight, PutbackRight, Index

LEMMA PeerIn ==
  ASSUME StreamsAssumption, InInv, PeerSends
  PROVE  InInv'
  <1>1. /\ i' = i /\ taken' = taken /\ pos' = pos /\ high' = high
        /\ starved' = starved /\ sent' = sent + 1 /\ sent < MaxChars
    BY DEF PeerSends
  <1>2. InType'
    BY <1>1 DEF StreamsAssumption, InInv, InType
  <1> QED BY <1>1, <1>2 DEF InInv, FreshRight, PutbackRight, Index

LEMMA InStep ==
  ASSUME StreamsAssumption, InInv, [Next]_vars
  PROVE  InInv'
  <1>1. ASSUME UNCHANGED inVars PROVE InInv'
    <2>1. UNCHANGED <<i, sent, taken, pos, high, starved>>
      BY <1>1, Zenon DEF inVars
    <2>2. InType'
      BY <2>1, Zenon DEF InInv, InType
    <2> QED BY <2>1, <2>2 DEF InInv, FreshRight, PutbackRight, Index
  <1>2. \/ UNCHANGED inVars \/ Get \/ Unget \/ Underflow \/ UnderflowFails
        \/ OpenIn \/ ClearIn \/ DestroyIn \/ PeerSends
    BY DEF Next, vars, DropConnection, OpenOut, Put, Sync, ClearOut, DestroyOut
  <1> QED BY <1>1, <1>2, GetIn, UngetIn, UnderflowIn, UnderflowFailsIn, SwitchIn, PeerIn

-----------------------------------------------------------------------------
(* Theorems *)

ConnType == conn \in BOOLEAN

LEMMA ConnStep ==
  ASSUME ConnType, [Next]_vars
  PROVE  ConnType'
  BY DEF ConnType, Next, vars, DropConnection, OpenOut, Put, Sync, ClearOut, DestroyOut,
         OpenIn, Get, Underflow, UnderflowFails, ClearIn, Unget, DestroyIn, PeerSends

\* Both invariants hold in every behaviour.
LEMMA Invariants == Spec => [](ConnType /\ OutInv /\ InInv)
  <1>1. Init => ConnType /\ OutInv /\ InInv
    BY StreamsAssumption, OutInit, InInit DEF Init, ConnType
  <1>2. ConnType /\ OutInv /\ InInv /\ [Next]_vars => (ConnType /\ OutInv /\ InInv)'
    BY StreamsAssumption, OutStep, InStep, ConnStep
  <1> QED BY <1>1, <1>2, PTL DEF Spec

\* Every variable has its type, and the positions in both buffers stay in order
\* and inside of them: what flush() asserts, and what memmove() and read() in
\* underflow() rely on, for buffers of any size.
THEOREM TypeCorrect == Spec => []TypeOK
  <1>1. ConnType /\ OutInv /\ InInv => TypeOK
    BY Zenon DEF ConnType, OutInv, OutType, InInv, InType, TypeOK
  <1> QED BY <1>1, Invariants, PTL

\* What was put into the onstream is on its way or in the buffer, each character
\* once and in order, through failing and repeated calls of flush() and the last one in
\* ~ostreambuf(), unless a write sent a part and failed.
THEOREM EveryCharacterOnce == Spec => []WireExact
  <1>1. OutInv => WireExact
    BY Zenon DEF OutInv, WireExact
  <1> QED BY <1>1, Invariants, PTL

\* The peer sees the end of the data exactly when ~ostreambuf() has run, in
\* whatever order connection, onstream and instream are destroyed.
THEOREM EndOfDataInTime == Spec => []NoEarlyEnd
  <1>1. OutInv => NoEarlyEnd
    BY Zenon DEF OutInv, NoEarlyEnd, Closed
  <1> QED BY <1>1, Invariants, PTL

\* Characters that are got for the first time are the next ones of the peer,
\* whatever reads have failed and whatever was put back, for buffers and putback areas
\* of any size.
THEOREM ReadsAreRight == Spec => []FreshRight
  <1>1. InInv => FreshRight
    BY DEF InInv
  <1> QED BY <1>1, Invariants, PTL

\* Characters that are put back are the ones that were got, also across calls of
\* underflow(), as long as none has failed.
THEOREM PutbackIsRight == Spec => []PutbackRight
  <1>1. InInv => PutbackRight
    BY DEF InInv
  <1> QED BY <1>1, Invariants, PTL
=============================================================================
