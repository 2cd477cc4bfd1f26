------------------------------ MODULE Syslogger ------------------------------
(***************************************************************************)
(* syslogger (include/nanonet/sys/syslogger.h, src/sys/syslogger.cpp): an  *)
(* ostreambuf whose reader_writer sends every flush of its buffer to       *)
(* syslog() and to an echo stream.  A logger is a record with the put area *)
(* of its buffer and the members of its syslog_writer; syslog and echoed   *)
(* are what went to the two destinations.  A behaviour sets a logger up    *)
(* and writes to it; what was done to it is its history.                   *)
(***************************************************************************)
EXTENDS Text

CONSTANT BufferSize   \* of the ostreambuf, 1024 in the code
ASSUME BufferSizeAssumption == BufferSize \in Nat \ {0}

VARIABLES
  log,    \* the syslogger
  events  \* what was done to it (history)

\* The priorities are 0 (EMERG) to 7 (DEBUG).
PrioNames == <<"EMERGENCY", "ALERT", "CRITICAL", "ERROR", "WARNING", "NOTICE", "INFO", "DEBUG">>
Emerg == 0
Err == 3
DefaultPrio == 6
PrioToString(p) == PrioNames[p + 1]
PrioFromString(s) == LET k == SelectInSeq(PrioNames, LAMBDA n : n = s)
                     IN IF k = 0 THEN Thrown ELSE <<k - 1>>

NewLogger(echo, clock) ==
  [buf |-> <<>>, minlevel_syslog |-> DefaultPrio, minlevel_echo |-> DefaultPrio,
   currlevel |-> DefaultPrio, echo |-> echo, clock |-> clock,
   syslog |-> <<>>, echoed |-> <<>>]

SetEchoStream(l, s) == [l EXCEPT !.echo = s]
SetEchoClock(l, cl) == [l EXCEPT !.clock = cl]
SetMinlevel(l, p, which) ==
  [l EXCEPT !.minlevel_syslog = IF "SYSLOG" \in which THEN p ELSE @,
            !.minlevel_echo   = IF "ECHO" \in which THEN p ELSE @]
SetPriority(l, p) == [l EXCEPT !.currlevel = p]

-----------------------------------------------------------------------------
\* flush() of the buffer: syslog_writer::write() of what it holds, without the
\* white space at its end, if the priority allows.  A negative time of the
\* clock is not written.
Stamp(l) == IF l.clock >= 0 THEN <<l.clock>> ELSE <<>>

\* Mutation: the priority stays as it is.
FlushLog_NoReset(l) ==
  LET text == Chop(l.buf)
  IN IF l.buf = <<>> THEN l
     ELSE [l EXCEPT !.buf = <<>>,
                    !.syslog = IF l.currlevel <= l.minlevel_syslog
                               THEN Append(@, [prio |-> l.currlevel, text |-> text]) ELSE @]

FlushLog(l) ==
  LET text == Chop(l.buf)
  IN IF l.buf = <<>> THEN l
     ELSE [l EXCEPT
            !.buf = <<>>,
            !.syslog = IF l.currlevel <= l.minlevel_syslog
                       THEN Append(@, [prio |-> l.currlevel, text |-> text]) ELSE @,
            !.echoed = IF l.echo /\ l.currlevel <= l.minlevel_echo
                       THEN Append(@, [stamp |-> Stamp(l), prio |-> l.currlevel, text |-> text])
                       ELSE @,
            !.currlevel = DefaultPrio]

\* A character goes to the put area, one place shorter than the buffer;
\* overflow() puts one more behind it and flushes.
PutLog(l, c) == LET k == [l EXCEPT !.buf = Append(@, c)]
                IN IF Len(l.buf) < BufferSize - 1 THEN k ELSE FlushLog(k)
WriteLog(l, text) ==
  LET written[k \in 0..Len(text)] == IF k = 0 THEN l ELSE PutLog(written[k - 1], text[k])
  IN written[Len(text)]

\* text << std::endl, with a priority before it; log_error(), and the
\* syslogger that log_oneoff() creates and destroys.
LogLine(l, text) == FlushLog(PutLog(WriteLog(l, text), "\n"))
LogError(l, msg, what) == LogLine(SetPriority(l, Err), msg \o <<":", " ">> \o what)
LogOneoff(p, message) == FlushLog(LogLine(SetPriority(NewLogger(FALSE, 0), p), message))

\* testmode_sentry: constructor and destructor.
SentryEnters(l, echo_time) ==
  SetMinlevel(SetEchoClock(SetEchoStream(l, TRUE), echo_time), Emerg, {"SYSLOG"})
SentryLeaves(l) == SetMinlevel(SetEchoStream(l, FALSE), DefaultPrio, {"SYSLOG"})

-----------------------------------------------------------------------------
LogInit(clocks) ==
  \E echo \in BOOLEAN, time \in clocks :
    log = NewLogger(echo, time) /\ events = <<[kind |-> "new", echo |-> echo, time |-> time]>>

\* Something is done to the logger: a line with or without a priority of its
\* own, log_error(), setminprio(), a sentry.
Did(event, l) == log' = l /\ events' = Append(events, event)

LogsLine(texts, prios) ==
  \E t \in texts :
    \/ Did([kind |-> "line", prio |-> DefaultPrio, text |-> t], LogLine(log, t))
    \/ \E p \in prios : Did([kind |-> "line", prio |-> p, text |-> t],
                            LogLine(SetPriority(log, p), t))
LogsError(errors) ==
  \E e \in errors : Did([kind |-> "line", prio |-> Err, text |-> e[1] \o <<":", " ">> \o e[2]],
                        LogError(log, e[1], e[2]))
SetsMinlevel(prios) ==
  \E p \in prios, which \in SUBSET {"SYSLOG", "ECHO"} \ {{}} :
    Did([kind |-> "min", prio |-> p, which |-> which], SetMinlevel(log, p, which))
Enters(clocks) == \E t \in clocks : Did([kind |-> "enter", time |-> t], SentryEnters(log, t))
Leaves == Did([kind |-> "leave"], SentryLeaves(log))

LogNext(texts, errors, prios, clocks) ==
  \/ LogsLine(texts, prios) \/ LogsError(errors)
  \/ SetsMinlevel(prios) \/ Enters(clocks) \/ Leaves
LogSpec(texts, errors, prios, clocks) ==
  LogInit(clocks) /\ [][LogNext(texts, errors, prios, clocks)]_<<log, events>>

-----------------------------------------------------------------------------
\* The events of h before its k-th that are of one of these kinds.
Before(h, k, kinds) == {j \in 1..k - 1 : h[j].kind \in kinds}

\* What holds at the k-th event of h: the minimum levels are those that were
\* set last, there is an echo from the beginning or in a sentry, and its clock
\* is the last one given.
MinLevel(h, k, which) ==
  LET sets == {j \in Before(h, k, {"min"}) : which \in h[j].which}
              \cup (IF which = "SYSLOG" THEN Before(h, k, {"enter", "leave"}) ELSE {})
      e == h[Max(sets)]
  IN IF sets = {} THEN DefaultPrio
     ELSE CASE e.kind = "min"   -> e.prio
            [] e.kind = "enter" -> Emerg
            [] e.kind = "leave" -> DefaultPrio
Echoing(h, k) == LET e == h[Max(Before(h, k, {"new", "enter", "leave"}))]
                 IN e.kind = "enter" \/ (e.kind = "new" /\ e.echo)
StampAt(h, k) == LET time == h[Max(Before(h, k, {"new", "enter"}))].time
                 IN IF time < 0 THEN <<>> ELSE <<time>>

\* A line is cut into pieces of the size of the buffer.  The first one has the
\* priority of the line, the others the default priority; the last one is
\* empty if the line ends with a full buffer.
Entries(text, prio) ==
  LET u == Append(text, "\n")
  IN [i \in 1..(Len(u) + BufferSize - 1) \div BufferSize |->
        [prio |-> IF i = 1 THEN prio ELSE DefaultPrio,
         text |-> Chop(SubSeq(u, BufferSize * (i - 1) + 1, Min({BufferSize * i, Len(u)})))]]
Stamped(entries, stamp) ==
  [i \in DOMAIN entries |-> [stamp |-> stamp, prio |-> entries[i].prio, text |-> entries[i].text]]
Allowed(entries, level) ==
  FlattenSeq([i \in DOMAIN entries |-> IF entries[i].prio <= level THEN <<entries[i]>> ELSE <<>>])

\* What h leaves at the two destinations.
SyslogOf(h, k) ==
  IF h[k].kind = "line"
  THEN Allowed(Entries(h[k].text, h[k].prio), MinLevel(h, k, "SYSLOG")) ELSE <<>>
EchoOf(h, k) ==
  IF h[k].kind = "line" /\ Echoing(h, k)
  THEN Allowed(Stamped(Entries(h[k].text, h[k].prio), StampAt(h, k)), MinLevel(h, k, "ECHO"))
  ELSE <<>>

\* Each line is logged once at each destination whose minimum level at that
\* time allows, in pieces of the size of the buffer: a line that fits is one
\* entry and has its own priority, whatever was logged before, also if it is
\* logged by log_oneoff(); the rest of a longer one has the default priority.
\* A testmode_sentry leaves the default level and its clock.
LogRight ==
  LET last == events[Len(events)]
  IN /\ log.buf = <<>> /\ log.currlevel = DefaultPrio
     /\ log.syslog = FlattenSeq([k \in DOMAIN events |-> SyslogOf(events, k)])
     /\ log.echoed = FlattenSeq([k \in DOMAIN events |-> EchoOf(events, k)])
     /\ Stamp(log) = StampAt(events, Len(events) + 1)
     /\ last.kind = "line" =>
          LogOneoff(last.prio, last.text).syslog
            = Allowed(Entries(last.text, last.prio), DefaultPrio)
     /\ \A p \in 0..7 : PrioFromString(PrioToString(p)) = <<p>>
=============================================================================
