---------------------------- MODULE MCHttpServer ----------------------------
(* HttpServer for model checking. *)
EXTENDS HttpServer

MCTasks == {"c1", "c2", "c3"}
MCFiles == {<<"index.html">>, <<"page">>}
MCstoi(word) == CASE word = "5" -> 5 [] OTHER -> 0
MCHasGET == {"GET", "FORGET", "WIDGET"}
MCHasPOST == {"POST", "COMPOST"}
MCHasVersion == {"1.0", "1.1", "1.11"}

\* A request, as the client means it, and the symbols it sends.
Request(method, file, version, headers, body, valid) ==
  LET line == <<method, " ", "/">> \o file \o <<" ", "HTTP", "/", version, CR, LF>>
      texts == [n \in DOMAIN headers |->
                  <<headers[n].key, ":", " ">> \o headers[n].value \o <<CR, LF>>]
      Before(n) == line \o FlattenSeq(SubSeq(texts, 1, n - 1))
      start == Before(Len(headers) + 1) \o <<CR, LF>>
  IN  [method |-> method, file |-> file, version |-> version, fields |-> headers,
       valid |-> valid,
       file_name |-> IF file = <<>> THEN <<"index.html">>
                     ELSE SelectSeq(file, LAMBDA w : w \notin {"?", "query"}),
       headers |-> {<<<<headers[n].key>>, headers[n].value>> : n \in DOMAIN headers},
       at |-> [n \in 1 .. Len(headers) + 1 |-> Len(Before(n)) + 1],
       headerEnd |-> Len(start),
       message |-> start \o [n \in 1 .. body |-> "x"]]

Field(key, value) == [key |-> key, value |-> value]
Alive == Field("Connection", <<"keep-alive">>)
Length == Field("Content-length", <<"5">>)

Get == Request("GET", <<>>, "1.1", <<Alive>>, 0, TRUE)
Gone == Request("GET", <<"gone", "?", "query">>, "1.0", <<Alive, Field("Host", <<"h">>)>>, 0, TRUE)
Bare == Request("GET", <<"page">>, "1.0", <<>>, 0, TRUE)
Post == Request("POST", <<"page">>, "1.1", <<Length, Alive>>, 5, TRUE)
NoLength == Request("POST", <<"page">>, "1.1", <<Alive>>, 5, FALSE)
Overlong == Request("GET", <<>>, "1.1", <<Field("Host", <<"overlong">>)>>, 0, FALSE)
Put == Request("PUT", <<"page">>, "1.1", <<Alive>>, 0, FALSE)
OldVersion == Request("GET", <<"page">>, "0.9", <<Alive>>, 0, FALSE)
\* The method inside of words: where it belongs, and not.
Forget == Request("FORGET", <<"WIDGET", "/", "COMPOST">>, "1.11", <<Alive>>, 0, TRUE)
Compost == Request("COMPOST", <<"COMPOST">>, "1.1", <<Length>>, 5, TRUE)
Widget == Request("POST", <<"WIDGET">>, "1.1", <<Length>>, 5, TRUE)
WidgetPage == Request("POST", <<"WIDGET", "/", "page">>, "1.1", <<Length>>, 5, TRUE)

Plan(r, n, how) == [request |-> r, first |-> n, leaves |-> how, after |-> {}]
Absent == Plan(Bare, 0, {})
Whole(r, how) == Plan(r, Len(r.message), how)
After(p, cs) == [p EXCEPT !.after = cs]

\* What tests/HTTPClient.cpp sends, on one connection after the other, each of
\* which it closes: a space, a request line without its end, and a request.  It
\* sleeps before it closes, and two connections in a row are enough.
Unfinished(words) ==
  [method |-> "none", valid |-> FALSE, file_name |-> <<>>, headers |-> {},
   headerEnd |-> Len(words), message |-> words]
HTTPClient ==
  LET third == Request("GET", <<>>, "1.1",
                       <<Field("Host", <<"172.19.237.81", ":", "8888">>),
                         Field("Content-Type", <<"application/x-www-form-urlencoded">>),
                         Field("Connection", <<"Keep-Alive">>)>>, 0, TRUE)
      Then(p, q) == [c1 |-> p, c2 |-> After(q, {"c1"}), c3 |-> Absent]
      space == Whole(Unfinished(<<" ">>), {"shut"})
      second == Whole(Unfinished(<<"GET", " ", " ", "HTTP", "/", "1.1">>), {"shut"})
  IN  {Then(space, second), Then(second, Whole(third, {"shut"}))}

\* One client whose request comes in two segments, or who may go away; two
\* clients that send the body late; three clients, for whom the queue is too
\* short; the test client; and none.  Clients connect in a fixed order, but send
\* and are handled in any.
MCPlans ==
  LET One(p) == [c1 |-> p, c2 |-> Absent, c3 |-> Absent]
      Two(p, q) == [c1 |-> p, c2 |-> After(q, {"c1"}), c3 |-> Absent]
      Late == Plan(Post, Post.headerEnd, {})
  IN  {One(Plan(Post, n, {})) : n \in 1 .. Len(Post.message)}
      \cup {One(Plan(Gone, n, {})) : n \in {5, Gone.headerEnd}}
      \cup {One(Whole(r, {})) : r \in {Bare, NoLength, Overlong, Put, OldVersion,
                                         Forget, Compost, Widget, WidgetPage}}
      \cup {One(Whole(r, {"shut", "reset"})) : r \in {Get, Gone, Post}}
      \cup {Two(Late, Plan(Post, Post.headerEnd + 1, {})), One(Absent),
            [c1 |-> Whole(Put, {}),
             c2 |-> After(Whole(Put, {}), {"c1"}),
             c3 |-> After(Whole(Put, {}), {"c1", "c2"})]}
      \cup HTTPClient
=============================================================================
