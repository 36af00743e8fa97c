----------------------------- MODULE HttpServer -----------------------------
(***************************************************************************)
(* The HTTP server of the first version (Examples/Ver0.1/main.cpp and      *)
(* HttpData.cpp): the main thread accepts connections, hands the readable  *)
(* ones to the thread pool and closes those whose timer has run out; the   *)
(* pool's threads read, parse and answer the requests.                     *)
(*                                                                         *)
(* Connections are registered with EPOLLONESHOT and nothing re-arms them   *)
(* (the end of handleRequest is commented out): each is handed over at     *)
(* most once.  A requestData is named by its connection.                   *)
(***************************************************************************)
EXTENDS ThreadPool, HttpRequest

CONSTANTS
  Plans,          \* what the clients may send: a set of functions from Tasks to
                  \*   records [request, first, leaves, after]; `first' symbols come in
                  \*   the first segment, the rest in a second one (first = 0:
                  \*   the client does not connect; if none does, there is
                  \*   no server, but another user of the pool), and leaves says how
                  \*   the client may go; it connects once those in `after' have
                  \*   sent something and, if they may go, have gone (bound)
  Files,          \* the names stat() finds
  TIMER_TIME_OUT,
  MaxNow          \* bound on the clock

\* Clients may send anything.
PlanOK(p) ==
  /\ p.request.message \in Seq(STRING)
  /\ p.first \in 0 .. Len(p.request.message)

ASSUME PlansAssumption == \A p \in Plans : \A c \in Tasks : PlanOK(p[c])
ASSUME TimerAssumption == TIMER_TIME_OUT \in Nat /\ MaxNow \in Nat

Conns == Tasks

VARIABLES
  main,       \* where the main thread is; "exit": the process has ended
  plan,
  client,     \* "none", "open", "shut" (it has closed its end) or "reset"
  sent,       \* symbols the client has sent
  read,       \* symbols the server has read
  backlog,    \* connections accept() has not returned yet
  edge,       \* the listening socket has an edge to report
  armed,      \* connections epoll_wait may report
  ready, failed,   \* the events that are left of the current batch
  live,       \* requestData objects that are allocated
  req,        \* their contents
  heap,       \* myTimerQueue: the connections whose mytimer is in it
  attached,   \* those whose request_data is not null
  expired_time,
  now

netVars == <<plan, client, sent>>
timerVars == <<heap, attached, expired_time>>
mainVars == <<backlog, edge, armed, ready, failed, live>>
vars == <<poolVars, netVars, timerVars, mainVars, main, read, req, now>>

Message(c) == plan[c].request.message

MainPcs == {"setup", "user", "wait", "events", "expire", "exit"}

TypeOK ==
  /\ PoolTypeOK
  /\ main \in MainPcs
  /\ client \in [Conns -> {"none", "open", "shut", "reset"}]
  /\ \A c \in Conns : sent[c] \in 0 .. Len(Message(c)) /\ read[c] \in 0 .. sent[c]
  /\ backlog \subseteq Conns /\ armed \subseteq live /\ live \subseteq Conns
  /\ ready \subseteq Conns \cup {NoTask} /\ failed \subseteq Conns
  /\ edge \in BOOLEAN
  /\ \A c \in Conns :
       /\ req[c].flag \in {"none", "again", "error", "success"}
       /\ req[c].state \in {"PARSE_URI", "PARSE_HEADERS", "RECV_BODY", "ANALYSIS",
                            "200", "404", "FINISH"}
  /\ attached \subseteq heap /\ heap \subseteq Conns
  /\ expired_time \in [Conns -> 0 .. MaxNow + TIMER_TIME_OUT] /\ now \in 0 .. MaxNow

Init ==
  /\ PoolInit
  /\ plan \in Plans
  /\ main = IF \A c \in Conns : plan[c].first = 0 THEN "user" ELSE "setup"
  /\ client = [c \in Conns |-> "none"]
  /\ sent = [c \in Conns |-> 0] /\ read = [c \in Conns |-> 0]
  /\ backlog = {} /\ edge = FALSE /\ armed = {} /\ ready = {} /\ failed = {}
  /\ live = {} /\ req = [c \in Conns |-> requestData]
  /\ heap = {} /\ attached = {} /\ expired_time = [c \in Conns |-> 0] /\ now = 0

-----------------------------------------------------------------------------
(* The clients and the clock. *)

Connect(c) ==
  /\ main \in {"wait", "events", "expire"} /\ client[c] = "none" /\ plan[c].first > 0
  /\ \A d \in plan[c].after : sent[d] > 0 /\ (plan[d].leaves # {} => client[d] # "open")
  /\ client' = [client EXCEPT ![c] = "open"]
  /\ backlog' = backlog \cup {c} /\ edge' = TRUE
  /\ UNCHANGED <<poolVars, timerVars, main, plan, sent, read, armed, ready, failed, live,
                 req, now>>

Send(c) ==
  /\ main # "exit" /\ client[c] = "open" /\ sent[c] < Len(Message(c))
  /\ sent' = [sent EXCEPT ![c] = IF @ = 0 THEN plan[c].first ELSE Len(Message(c))]
  /\ UNCHANGED <<poolVars, timerVars, mainVars, main, plan, client, read, req, now>>

\* The client closes the connection, or resets it.
Leave(c, how) ==
  /\ main # "exit" /\ client[c] = "open" /\ how \in plan[c].leaves
  /\ client' = [client EXCEPT ![c] = how]
  /\ UNCHANGED <<poolVars, timerVars, mainVars, main, plan, sent, read, req, now>>

\* The clock matters only while there are timers, and not among the events: a
\* tick there might as well come before or after them.
Tick ==
  /\ main \in {"wait", "expire"} /\ heap # {} /\ now < MaxNow
  /\ now' = now + 1
  /\ UNCHANGED <<poolVars, timerVars, mainVars, netVars, main, read, req>>

-----------------------------------------------------------------------------
(* The main thread. *)

\* main() up to its loop.
Setup ==
  /\ main = "setup" /\ owner = "ready"
  /\ main' = "wait"
  /\ UNCHANGED <<poolVars, timerVars, mainVars, netVars, read, req, now>>

\* socket_bind_listen fails, or threadpool_create has returned NULL because a
\* thread could not be created.
SetupFails ==
  /\ main = "setup" /\ owner \in {"ready", "kept", "freed"}
  /\ main' = "exit"
  /\ UNCHANGED <<poolVars, timerVars, mainVars, netVars, read, req, now>>

\* What epoll_wait has to say about c: a reset shows as EPOLLERR and EPOLLHUP,
\* an orderly close as EPOLLIN.
Readable(c) == c \in armed /\ (sent[c] > read[c] \/ client[c] # "open")

\* epoll_waits(-1) returns a batch; what it reports is disarmed.  An error
\* (a signal) ends the loop and the program.
WaitEvents ==
  /\ main = "wait"
  /\ LET conns == {c \in Conns : Readable(c)}
     IN  /\ edge \/ conns # {}
         /\ failed' = {c \in conns : client[c] = "reset"}
         /\ ready' = (conns \ failed') \cup (IF edge THEN {NoTask} ELSE {})
         /\ armed' = armed \ conns
  /\ edge' = FALSE
  /\ main' = "events"
  /\ UNCHANGED <<poolVars, timerVars, netVars, backlog, live, read, req, now>>

WaitFails ==
  /\ main = "wait" /\ main' = "exit"
  /\ UNCHANGED <<poolVars, timerVars, mainVars, netVars, read, req, now>>

\* epoll_add, whose result is not looked at: a connection it fails for has only its
\* timer.  (Bound: it fails for all the connections of an event, or for none.)
epoll_add(conns) == \E added \in {conns, {}} : armed' = armed \cup added

\* mytimer and addTimer.
addTimer(conns) ==
  /\ heap' = heap \cup conns
  /\ attached' = attached \cup conns
  /\ expired_time' = [c \in Conns |-> IF c \in conns THEN now + TIMER_TIME_OUT
                                      ELSE expired_time[c]]

\* acceptConnection: NoTask stands for the listening socket's requestData.  When
\* accept() fails (there is no descriptor left), what is queued waits for the edge
\* of the next connection.  (Bounds: it fails at once or not at all, and
\* setSocketNonBlocking does not fail.)
Accept ==
  /\ main = "events" /\ NoTask \in ready
  /\ \E accepted \in {backlog, {}} :
       /\ live' = live \cup accepted
       /\ epoll_add(accepted) /\ addTimer(accepted)
       /\ backlog' = backlog \ accepted
  /\ ready' = ready \ {NoTask}
  /\ UNCHANGED <<poolVars, netVars, edge, failed, main, read, req, now>>

\* A timer forgets its request; it stays in the heap and counts as deleted.
clearReq(c) == attached' = attached \ {c}

\* delete request: ~requestData.
Delete(c) ==
  /\ live' = live \ {c}
  /\ armed' = armed \ {c}
  /\ clearReq(c)

HandleError(c) ==
  /\ main = "events" /\ c \in failed
  /\ Delete(c)
  /\ failed' = failed \ {c}
  /\ UNCHANGED <<poolVars, netVars, backlog, edge, ready, main, heap, expired_time, read,
                 req, now>>

\* Mutant: the timer keeps its pointer to the request.
MutSeperateTimer(c) == attached' = attached

seperateTimer(c) == clearReq(c)

\* The result of threadpool_add is ignored: when the queue is full, the request
\* is neither handled nor freed.
HandleIn(c) ==
  /\ main = "events" /\ c \in ready \cap Conns
  /\ seperateTimer(c)
  /\ Add(c) \/ AddFails
  /\ ready' = ready \ {c}
  /\ UNCHANGED <<netVars, backlog, edge, armed, failed, live, main, heap, expired_time,
                 read, req, now>>

EventsDone ==
  /\ main = "events" /\ ready = {} /\ failed = {}
  /\ main' = "expire"
  /\ UNCHANGED <<poolVars, timerVars, mainVars, netVars, read, req, now>>

\* myTimerQueue.top().
Top(c) == c \in heap /\ \A d \in heap : expired_time[c] <= expired_time[d]

isvalid(c) == now < expired_time[c]

\* handle_expired_event: a timer that is deleted or has run out is popped, and
\* takes the request with it that it still points to.
Expire(c) ==
  /\ main = "expire" /\ Top(c)
  /\ c \notin attached \/ ~isvalid(c)
  /\ heap' = heap \ {c}
  /\ IF c \in attached THEN Delete(c) ELSE UNCHANGED <<live, armed, attached>>
  /\ UNCHANGED <<poolVars, netVars, backlog, edge, ready, failed, main, expired_time, read,
                 req, now>>

ExpireDone ==
  /\ main = "expire"
  /\ heap = {} \/ \E c \in Conns : Top(c) /\ c \in attached /\ isvalid(c)
  /\ main' = "wait"
  /\ UNCHANGED <<poolVars, timerVars, mainVars, netVars, read, req, now>>

\* Another user of the pool's interface, who also shuts it down.
PoolUser ==
  /\ main = "user"
  /\ \/ \E c \in Conns \ {taken[n] : n \in DOMAIN taken} :
          (\A n \in DOMAIN Contents : Contents[n] # c) /\ Add(c)
     \/ AddFails
     \/ \E how \in {"immediate", "graceful"} : Destroy(how)
  /\ UNCHANGED <<timerVars, mainVars, netVars, main, read, req, now>>

PoolStep(step) ==
  /\ main # "exit" /\ step
  /\ UNCHANGED <<timerVars, mainVars, netVars, main, read, req, now>>

\* The pool's own steps, and a thread that cannot be created.
Pool ==
  \/ PoolStep(OwnerStep)
  \/ PoolStep(owner = "create" /\ Destroy("immediate"))
  \/ \E t \in Threads :
       PoolStep(ThreadStep(t) \/ SpuriousWakeup(t) \/ (main = "user" /\ Return(t)))

-----------------------------------------------------------------------------
(* A thread that works on a request: myHandler. *)

Working(t, c) == main \notin {"exit", "user"} /\ thread[t] = "work" /\ task[t] = c

\* readn returns what has arrived, nothing perhaps once the client has reset the
\* connection; handleRequest returns when the parser stops.
ReadRequest(t, c) ==
  /\ Working(t, c) /\ req[c].state \in {"PARSE_URI", "RECV_BODY"}
  /\ \E n \in {sent[c]} \cup (IF client[c] = "reset" THEN {read[c]} ELSE {}) :
       LET r == Received(req[c], SubSeq(Message(c), read[c] + 1, n))
       IN  /\ req' = [req EXCEPT ![c] = r]
           /\ IF r.flag = "none" THEN UNCHANGED poolVars ELSE Return(t)
           /\ read' = [read EXCEPT ![c] = n]
  /\ UNCHANGED <<timerVars, mainVars, netVars, main, now>>

\* writen: the first write to a connection the client has closed makes the client
\* reset it; a write may fail for want of room; and on a connection that has been
\* reset it fails, or ends the whole process (SIGPIPE is not ignored).
Written(c) ==
  /\ client[c] # "reset"
  /\ client' = [client EXCEPT ![c] = IF @ = "shut" THEN "reset" ELSE @]
  /\ UNCHANGED main

WriteFails == UNCHANGED <<client, main>>

Killed(c) == client[c] = "reset" /\ main' = "exit" /\ UNCHANGED <<poolVars, client, req>>

Goto(c, state) == req' = [req EXCEPT ![c].state = state] /\ UNCHANGED poolVars

Finish(t, c, state, flag) ==
  /\ req' = [req EXCEPT ![c].state = state, ![c].flag = flag]
  /\ Return(t)

Found(c) == req[c].method = "POST" \/ req[c].file_name \in Files

\* analysisRequest: the status line and the headers.  handleError, which writes
\* the answer to a request for an unknown file, does not look at the result.
WriteHeader(t, c) ==
  /\ Working(t, c) /\ req[c].state = "ANALYSIS"
  /\ \/ Found(c) /\ Written(c) /\ Goto(c, "200")
     \/ Found(c) /\ WriteFails /\ Finish(t, c, "ANALYSIS", "error")
     \/ ~Found(c) /\ (Written(c) \/ WriteFails) /\ Goto(c, "404")
     \/ Killed(c)
  /\ UNCHANGED <<timerVars, mainVars, plan, sent, read, now>>

\* The text, the file or the error page.
WriteContent(t, c) ==
  /\ Working(t, c)
  /\ \/ req[c].state = "200" /\ Written(c) /\ Finish(t, c, "FINISH", "success")
     \/ req[c].state = "200" /\ WriteFails /\ Finish(t, c, "ANALYSIS", "error")
     \/ req[c].state = "404" /\ (Written(c) \/ WriteFails) /\ Finish(t, c, "404", "error")
     \/ req[c].state \in {"200", "404"} /\ Killed(c)
  /\ UNCHANGED <<timerVars, mainVars, plan, sent, read, now>>

-----------------------------------------------------------------------------
Main ==
  \/ Setup \/ SetupFails \/ WaitEvents \/ Accept \/ EventsDone \/ ExpireDone
  \/ \E c \in Conns : HandleError(c) \/ HandleIn(c) \/ Expire(c)

Handle(t) == \E c \in Conns : ReadRequest(t, c) \/ WriteHeader(t, c) \/ WriteContent(t, c)

Environment ==
  \/ Tick \/ WaitFails
  \/ \E c \in Conns : Connect(c) \/ Send(c) \/ (\E how \in {"shut", "reset"} : Leave(c, how))

Next == Main \/ Pool \/ PoolUser \/ Environment \/ \E t \in Threads : Handle(t)

\* A handler can do something: it does not spin on a body that has not come.
CanHandle(t) ==
  \E c \in Conns : Working(t, c) /\ ~(req[c].state = "RECV_BODY" /\ read[c] = sent[c])

\* Every thread runs when it can.  The last conjunct is the weak fairness of
\* Handle(t), written out: CanHandle is when it is enabled, and only t changes the
\* request it works on.  Nothing makes the clients send, or a sleeping thread
\* wake up without a signal.
Fairness ==
  /\ WF_vars(Main)
  /\ WF_vars(PoolStep(OwnerStep))
  /\ \A t \in Threads :
       /\ WF_vars(PoolStep(ThreadStep(t) \/ (main = "user" /\ Return(t))))
       /\ \/ []<>~CanHandle(t)
          \/ []<><<\E c \in Conns : Working(t, c) /\ req'[c] # req[c]>>_vars

Spec == Init /\ [][Next]_vars /\ Fairness

-----------------------------------------------------------------------------
(* Properties. *)

\* A request the pool has still to handle, or that epoll may report, has not
\* been deleted by the main thread's timers (requestData is shared by raw
\* pointers between the epoll set, the timer heap and the pool).
NoUseAfterFree ==
  main # "user" =>
    /\ {Contents[n] : n \in DOMAIN Contents} \subseteq live
    /\ \A t \in Threads : task[t] # NoTask => task[t] \in live
    /\ armed \cup (ready \ {NoTask}) \cup failed \cup attached \subseteq live

\* When the main thread goes back to epoll_wait, no timer that has run out is
\* left in the heap, although timers are deleted lazily, from the top only.
ExpiredAreClosed ==
  main = "expire" /\ main' = "wait" => \A c \in heap : isvalid(c)

\* A requestData is deleted when its time has come, and not while it is in use.
DeletedInTime == [][NoUseAfterFree' /\ ExpiredAreClosed]_vars

\* Where the blank line after the headers ends.
HeaderEnd(c) == plan[c].request.headerEnd

\* What the client sends is a request, valid or not, or part of a request line.
IsMeant(c) == IsFragment(plan[c].request) \/ IsRequest(plan[c].request)

\* However the request was cut into segments, what the parser gets out of it is
\* what the client has put into it.
ParsedAsSent ==
  \A c \in Conns :
    req[c].state \in {"ANALYSIS", "200", "404", "FINISH"} /\ IsMeant(c) =>
      LET r == plan[c].request
      IN  /\ r.valid
          /\ req[c].method = Taken(r.method) /\ req[c].file_name = r.file_name
          /\ req[c].headers = r.headers

\* handleRequest gives up on a valid request only if it has not read the
\* headers to their end (or there are none); and it answers a POST with at most
\* three bytes of its body missing (the line ends that may be left in content).
AnswerFits ==
  \A c \in Conns :
    /\ req[c].flag = "again" /\ IsMeant(c)
         => read[c] < HeaderEnd(c) \/ plan[c].request.headers = {}
    /\ req[c].state \in {"PARSE_URI", "PARSE_HEADERS", "RECV_BODY"}
         => (req[c].flag = "error" /\ IsMeant(c) => ~plan[c].request.valid)
    /\ req[c].state \in {"200", "FINISH"} /\ req[c].method = "POST" /\ IsMeant(c)
         => read[c] + 3 >= Len(Message(c))

\* A handler comes to its end, unless part of the body has not come yet:
\* handleRequest then reads again and again.
HandlerReturns ==
  \A c \in Conns :
    (\E t \in Threads : Working(t, c)) ~>
      \/ ~\E t \in Threads : Working(t, c)
      \/ req[c].state = "RECV_BODY" /\ read[c] < Len(Message(c))

\* A request in the queue is taken by a thread, unless all of them wait for the
\* bodies of other requests.
QueuedIsTaken ==
  \A c \in Conns :
    (main = "events" /\ \E n \in DOMAIN Contents : Contents[n] = c) ~>
      \/ \A n \in DOMAIN Contents : Contents[n] # c
      \/ main = "exit"
      \/ \A t \in Threads : \E d \in Conns : Working(t, d) /\ req[d].state = "RECV_BODY"

\* What a request is answered by is what was meant, in whatever segments it
\* arrives; a valid one is not refused, and is given up (for ever: nothing arms
\* its descriptor again) only when a segment ends before its headers do.
RequestUnderstood == ParsedAsSent /\ AnswerFits

\* The pool serves what it is given, as far as bodies that do not come let it.
PoolServes == HandlerReturns /\ QueuedIsTaken
=============================================================================
