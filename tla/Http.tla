-------------------------------- MODULE Http --------------------------------
(***************************************************************************)
(* The HTTP client and the helpers for a server (include/nanonet/http.h,   *)
(* src/http.cpp).  A text is a sequence of words and single characters:    *)
(* "http://", "GET", "HTTP" or the name of a header are one symbol, "\r"   *)
(* is the one before the "\n" that separates the lines of a stream.        *)
(***************************************************************************)
EXTENDS Text

\* wget(): the host, the port and the path of a URL.
\* Mutation: a port may be missing after its colon.
ParseUrl_NoPort(u) ==
  LET t == Tail(u)
      slash == FirstFrom(t, 1, LAMBDA c : c = "/")
      hostport == SubSeq(t, 1, slash - 1)
      colon == FirstFrom(hostport, 1, LAMBDA c : c = ":")
  IN IF u = <<>> \/ u[1] # "http://" \/ slash = 1 \/ slash > Len(t) \/ colon = 1
     THEN Thrown
     ELSE <<[host |-> SubSeq(hostport, 1, colon - 1),
             port |-> IF colon > Len(hostport) THEN <<"80">> ELSE From(hostport, colon + 1),
             path |-> From(t, slash)]>>

ParseUrl(u) ==
  LET t == Tail(u)
      slash == FirstFrom(t, 1, LAMBDA c : c = "/")
      hostport == SubSeq(t, 1, slash - 1)
      colon == FirstFrom(hostport, 1, LAMBDA c : c = ":")
  IN IF \/ u = <<>> \/ u[1] # "http://"
        \/ slash = 1 \/ slash > Len(t)
        \/ colon = Len(hostport)
        \/ colon = 1
     THEN Thrown
     ELSE <<[host |-> SubSeq(hostport, 1, colon - 1),
             port |-> IF colon > Len(hostport) THEN <<"80">> ELSE From(hostport, colon + 1),
             path |-> From(t, slash)]>>

Blanks == {" ", "\t", "\r", "\n"}
Blank(line) == \A k \in DOMAIN line : line[k] \in Blanks

\* The lines of a request of wget1(), and of the headers of a response; a
\* line ends with "\r" and the "\n" that separates it from the next.
Header(name, value) == <<name, ":", " ">> \o value \o <<"\r">>
RequestLines(url) ==
  << <<"GET", " ">> \o url.path \o <<" ", "HTTP", "/", "1.0", "\r">>,
     Header("From", <<"ano@nymous.com">>),
     Header("Host", url.host \o <<":">> \o url.port),
     Header("User-Agent", <<"KISS">>),
     <<"\r">> >>
CommonHeaders == <<Header("Date", <<"now">>), Header("Server", <<"KISS">>),
                   Header("Connection", <<"close">>)>>
Header200(ct) ==
  << <<"HTTP", "/", "1.1", " ", "200", "\r">> >> \o CommonHeaders
  \o <<Header("Content-Type", ct), <<"\r">> >>
Header404(reason) ==
  << <<"HTTP", "/", "1.1", " ", "404", " ">> \o reason \o <<"\r">> >> \o CommonHeaders
  \o << <<"\r">> >>

\* wget1(), after its request: the headers up to a blank line are skipped,
\* the rest is copied.
WgetBody(lines) ==
  LET b == SelectInSeq(lines, Blank)
  IN IF b = 0 THEN <<>> ELSE From(lines, b + 1)

\* parse_get_request(): the first line has three words, the second and a
\* version are kept; headers follow up to an empty line or the end.
Words(line) == LET w == SplitAny(line, Blanks)
               IN FlattenSeq([k \in DOMAIN w |-> IF w[k] = <<>> THEN <<>> ELSE <<w[k]>>])

\* The headers of the lines; one that is not understood is ignored.
WithHeader(r, name, value) ==
  [r EXCEPT !.user_agent = IF name = <<"User-Agent">> THEN value ELSE @,
            !.host       = IF name = <<"Host">> THEN value ELSE @,
            !.accept     = IF name = <<"Accept">> THEN value ELSE @]
HeadersOf(lines, r) ==
  LET stop == FirstFrom(lines, 1, LAMBDA line : Trim(line) = <<>>)
      after[k \in 0..stop - 1] ==
        LET hh == SplitColonBlank(Trim(lines[k]))
        IN IF k = 0 THEN <<r>>
           ELSE IF after[k - 1] = Thrown \/ hh = Thrown THEN Thrown
           ELSE <<WithHeader(after[k - 1][1], hh[1][1], hh[1][2])>>
  IN after[stop - 1]

ParseGetRequest(lines) ==
  LET w == Words(Trim(lines[1]))
      version == SplitAny(w[3], {"/"})
  IN IF Len(w) < 3 \/ w[1] # <<"GET">> THEN Thrown
     ELSE IF Len(version) # 2 \/ version[1] # <<"HTTP">> THEN Thrown
     ELSE HeadersOf(Tail(lines),
            [version |-> version[2], host |-> <<>>, abs_path |-> w[2],
             user_agent |-> <<>>, accept |-> <<>>])
=============================================================================
