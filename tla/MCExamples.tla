----------------------------- MODULE MCExamples -----------------------------
(***************************************************************************)
(* An instance for TLC of the small programs: the echo clients and their   *)
(* server, TimerManager, SimpleEpoll_1, and epoll_ET with epoll_client.    *)
(* They do not interact, and a behaviour is one of a single program: the   *)
(* others stay in their initial state.                                     *)
(***************************************************************************)
EXTENDS Echo, Timer, SimpleEpoll, EpollET, TLC

CONSTANTS c1, c2, server, n1, n2, p1, p2, listen, e1, o1

VARIABLE program

\* Messages of different lengths with different bytes.
MCClients == {c1, c2}
MCMessage == c1 :> <<2, 1, 3>> @@ c2 :> <<1, 2>>

MCTimerNodes == {n1, n2}
MCTimeouts == {2, 3}

MCPeers == {p1, p2}

MCEpollClients == {e1}
MCOtherClients == {o1}

MCVars == <<program, vars, timerManagerVars, simpleVars, etVars>>

RunEcho(step) ==
  program = "echo" /\ step /\ UNCHANGED <<program, timerManagerVars, simpleVars, etVars>>

RunTimer(step) ==
  program = "timer" /\ step /\ UNCHANGED <<program, vars, simpleVars, etVars>>

RunSimple(step) ==
  program = "simple" /\ step /\ UNCHANGED <<program, vars, timerManagerVars, etVars>>

RunET(step) ==
  program = "et" /\ step /\ UNCHANGED <<program, vars, timerManagerVars, simpleVars>>

MCInit ==
  /\ program \in {"echo", "timer", "simple", "et"}
  /\ Init /\ TimerInit /\ SimpleInit /\ EtInit
  \* one initial state for those that do not run
  /\ program # "echo" => sock[server][1] = c1
  /\ program # "timer" => clock = 0

MCNext == RunEcho(Next) \/ RunTimer(TimerNext) \/ RunSimple(SimpleNext) \/ RunET(EtNext)

\* The fairness of Echo!Spec, and a server that keeps running and to which accept
\* does not fail for ever.
MCSpec ==
  /\ MCInit /\ [][MCNext]_MCVars
  /\ \A h \in Handlers : WF_MCVars(RunEcho(HandlerStep(h)))
  /\ \A s \in Socks : WF_MCVars(RunEcho(Deliver(s)))
  /\ WF_MCVars(RunSimple(SimpleServer))
  /\ SF_MCVars(RunSimple(run_accept))
=============================================================================
