---------------------------- MODULE UhttpdProofs ----------------------------
(***************************************************************************)
(* For any number of clients: the Web server never runs two scripts at a   *)
(* time, and it implements the promise of module WebServer.                *)
(***************************************************************************)
EXTENDS Uhttpd, TLAPS

\* A socket is visited only if its connection is open, and accept() is only
\* called when a connection waits.
Visits ==
    /\ todo \ {Listener} \subseteq open
    /\ Listener \in todo => backlog # <<>>

\* The client whose request is relayed is connected and its header was read,
\* so it cannot connect anew, and its process reads the form to the end
\* before it runs.
Relayed ==
    /\ relay.at = "idle" <=> relay.cl = NoClient
    /\ relay.cl # NoClient =>
          /\ relay.cl \in open
          /\ sock[relay.cl].head = "read"
          /\ relay.plugin \in Plugins
          /\ relay.stdin = "due" => proc[relay.cl] \in {"none", "started"}

\* Output comes from the script that is relayed, when it has begun to answer.
Answering ==
    \A c \in Clients : out[c] => relay.cl = c /\ proc[c] \in {"none", "writing", "answered"}

\* The loop ends with a script at work only when the Lua plugin's timeout
\* has ended it; a script whose form came too late may begin after that.
EndsEarly ==
    relay.at \in {"out", "wait"} =>
        \/ relay.plugin = "lua"
        \/ relay.stdin \in {"due", "late"}
        \/ proc[relay.cl] \in {"none", "writing", "answered"}

WInv == WebTypeOK /\ OneHandler /\ Visits /\ Relayed /\ Answering /\ EndsEarly

USE ClientsAssumption, PluginsAssumption

\* A server that has just been started.
LEMMA WInit == WebInit => WInv
<1> SUFFICES ASSUME WebInit PROVE WInv
  OBVIOUS
<1>1. NewSocket \in Socket /\ Idle \in Relay
  BY DEF NewSocket, Socket, Idle, Relay
<1>2. backlog \in Seq(Clients)
  BY DEF WebInit
<1>3. sock \in [Clients -> Socket] /\ relay \in Relay
  BY <1>1 DEF WebInit
<1>4. proc \in [Clients -> Process] /\ out \in [Clients -> BOOLEAN]
  BY DEF WebInit, Process
<1>5. WebTypeOK
  BY <1>2, <1>3, <1>4 DEF WebInit, WebTypeOK
<1>6. OneHandler /\ Answering
  BY DEF WebInit, OneHandler, Alive, Answering
<1>7. Visits /\ Relayed /\ EndsEarly
  BY DEF WebInit, Visits, Relayed, EndsEarly, Idle
<1> QED
  BY <1>5, <1>6, <1>7 DEF WInv

\* Clients only write to their sockets or wait in the backlog.
LEMMA ClientStep ==
    ASSUME WInv, NEW c \in Clients, Client(c)
    PROVE  WInv'
<1> USE DEF WInv, WebTypeOK
<1>1. sock' \in [Clients -> Socket]
  <2>1. CASE Connect(c)
    BY <2>1 DEF Connect, NewSocket, Socket
  <2>2. CASE SendHead(c)
    BY <2>2 DEF SendHead, Socket
  <2>3. CASE SendForm(c)
    BY <2>3 DEF SendForm, Socket
  <2>4. CASE Leave(c)
    BY <2>4 DEF Leave, Socket
  <2> QED
    BY <2>1, <2>2, <2>3, <2>4 DEF Client
<1>2. backlog' \in Seq(Clients) /\ (backlog # <<>> => backlog' # <<>>)
  BY DEF Client, Connect, SendHead, SendForm, Leave
<1>3. UNCHANGED <<open, todo, relay, header_sent, expired, proc, out>>
  BY DEF Client, Connect, SendHead, SendForm, Leave, server
<1>4. relay.cl # NoClient => sock'[relay.cl].head = "read"
  <2> SUFFICES ASSUME relay.cl # NoClient PROVE sock'[relay.cl].head = "read"
    OBVIOUS
  <2>1. relay.cl \in Clients /\ relay.cl \in open /\ sock[relay.cl].head = "read"
    BY DEF Relayed, Relay
  <2>2. CASE Connect(c) \/ SendHead(c)
    BY <2>1, <2>2 DEF Connect, SendHead, Connected
  <2>3. CASE SendForm(c) \/ Leave(c)
    BY <2>1, <2>3 DEF SendForm, Leave, Socket
  <2> QED
    BY <2>2, <2>3 DEF Client
<1> QED
  BY <1>1, <1>2, <1>3, <1>4 DEF OneHandler, Alive, Visits, Relayed, Answering, EndsEarly

-----------------------------------------------------------------------------
\* The loop over the sockets.
LEMMA SelectStep ==
    ASSUME WInv, Select
    PROVE  WInv'
<1> USE DEF WInv, WebTypeOK, Select
<1>1. todo' \in SUBSET (Clients \cup {Listener})
  OBVIOUS
<1>2. Visits'
  BY DEF Visits, Readable
<1> QED
  BY <1>1, <1>2 DEF OneHandler, Alive, Relayed, Answering, EndsEarly

\* A client that waits is taken into the loop.
LEMMA AcceptStep ==
    ASSUME WInv, Accept
    PROVE  WInv'
<1> USE DEF WInv, WebTypeOK, Accept
<1>1. Head(backlog) \in Clients /\ backlog' \in Seq(Clients)
  BY DEF Visits
<1>2. todo' \in SUBSET (Clients \cup {Listener}) /\ open' \in SUBSET Clients /\ open \subseteq open'
  BY <1>1
<1>3. Visits'
  BY <1>2 DEF Visits
<1>4. Relayed'
  BY <1>2 DEF Relayed
<1> QED
  BY <1>1, <1>2, <1>3, <1>4 DEF OneHandler, Alive, Answering, EndsEarly

\* A connection is closed when no process is there for its client.
LEMMA ClosedStep ==
    ASSUME WInv, NEW c \in Clients, Closed(c), UNCHANGED <<sock, header_sent, expired, proc>>,
           out' \in [Clients -> BOOLEAN], \A d \in Clients : out'[d] => out[d] /\ d # c,
           ~Alive(c), relay.cl \in {c, NoClient}
    PROVE  WInv'
<1> USE DEF WInv, WebTypeOK, Closed
<1>1. Idle \in Relay
  BY DEF Idle, Relay
<1>2. OneHandler'
  BY DEF OneHandler, Alive
<1>3. Visits' /\ Relayed' /\ EndsEarly'
  BY DEF Visits, Relayed, EndsEarly, Idle
<1>4. Answering'
  BY DEF Answering
<1> QED
  BY <1>1, <1>2, <1>3, <1>4

\* A request without a script.
LEMMA ServeStep ==
    ASSUME WInv, NEW c \in Clients, Serve(c)
    PROVE  WInv'
<1>1. relay.cl = NoClient /\ ~Alive(c) /\ ~out[c]
  BY DEF WInv, Serve, Visited, Idle, OneHandler, Answering
<1> QED
  BY <1>1, ClosedStep DEF Serve, Visited, WInv, WebTypeOK

\* A script is only started when there is none.
LEMMA ForkStep ==
    ASSUME WInv, NEW c \in Clients, Fork(c)
    PROVE  WInv'
<1> USE DEF WInv, WebTypeOK, Fork, Visited
<1>1. sock' \in [Clients -> Socket] /\ sock'[c].head = "read"
  BY DEF Socket
<1>2. PICK p \in Plugins :
         relay' = [cl |-> c, at |-> "relay", plugin |-> p,
                   stdin |-> IF sock[c].head = "post" THEN "due" ELSE "fed"]
  OBVIOUS
<1>3. /\ relay' \in Relay /\ relay'.cl = c /\ relay'.at = "relay" /\ relay'.plugin \in Plugins
      /\ c # NoClient /\ c # Listener
  BY <1>2 DEF Relay
<1>4. proc' \in [Clients -> Process] /\ proc' = [proc EXCEPT ![c] = "started"]
  BY DEF Process
<1>5. relay.cl = NoClient /\ \A d \in Clients : proc[d] = "none"
  BY DEF Idle, OneHandler, Alive
<1>6. OneHandler'
  BY <1>3, <1>4, <1>5 DEF OneHandler, Alive
<1>7. Visits'
  BY DEF Visits
<1>8. Relayed'
  BY <1>1, <1>3, <1>4 DEF Relayed, Visits
<1>9. c \in open /\ header_sent' = FALSE /\ expired' = FALSE
  BY <1>3 DEF Visits
<1>10. EndsEarly'
  BY <1>3 DEF EndsEarly
<1>11. Answering'
  BY <1>5 DEF Answering
<1> QED
  BY <1>1, <1>3, <1>4, <1>6, <1>7, <1>8, <1>9, <1>10, <1>11

-----------------------------------------------------------------------------
\* The relay loop: what its steps have in common.
LEMMA RelayedStep ==
    ASSUME WInv, NEW c \in Clients, relay.cl = c,
           relay' \in Relay, relay'.cl = c, relay'.plugin = relay.plugin, relay'.at # "idle",
           relay'.stdin = "due" => relay.stdin = "due",
           UNCHANGED <<backlog, open, sock, todo, proc>>,
           header_sent' \in BOOLEAN, expired' \in BOOLEAN,
           out' \in [Clients -> BOOLEAN], \A d \in Clients : out'[d] => out[d],
           EndsEarly'
    PROVE  WInv'
<1> USE DEF WInv, WebTypeOK
<1>1. OneHandler' /\ Answering'
  BY DEF OneHandler, Alive, Answering
<1>2. Visits'
  BY DEF Visits
<1>3. Relayed'
  BY DEF Relayed
<1> QED
  BY <1>1, <1>2, <1>3

\* Its steps: the client and the process stay, the form is fed once.
LEMMA RelayStep ==
    ASSUME WInv, NEW c \in Clients,
           \/ RelayForm(c) \/ RelayOutput(c) \/ RelayEof(c) \/ CgiTimeout(c) \/ LuaTimeout(c) \/ Terminate(c)
    PROVE  /\ WInv'
           /\ relay'.cl = relay.cl /\ relay'.plugin = relay.plugin
           /\ relay'.stdin # relay.stdin => relay.stdin = "due"
           /\ UNCHANGED <<sock, proc>>
<1> USE DEF WInv, WebTypeOK
<1>1. CASE RelayForm(c)
  <2>1. /\ relay' \in Relay /\ relay'.cl = c /\ relay.cl = c /\ relay'.plugin = relay.plugin
        /\ relay'.at # "idle" /\ relay.stdin = "due"
    BY <1>1 DEF RelayForm, FormFailed, Relaying, Relay
  <2>2. EndsEarly'
    BY <1>1 DEF RelayForm, FormFailed, Relaying, Relay, EndsEarly
  <2> QED
    BY <1>1, <2>1, <2>2, RelayedStep DEF RelayForm
<1>2. CASE RelayOutput(c)
  <2>1. /\ relay' \in Relay /\ relay'.cl = c /\ relay.cl = c /\ relay'.plugin = relay.plugin
        /\ relay'.at # "idle" /\ relay'.stdin = relay.stdin
    BY <1>2 DEF RelayOutput, Relaying, Relay
  <2>2. EndsEarly'
    BY <1>2 DEF RelayOutput, Relaying, Relay, EndsEarly, Answering
  <2>3. /\ out' \in [Clients -> BOOLEAN] /\ \A d \in Clients : out'[d] => out[d]
        /\ header_sent' \in BOOLEAN
    BY <1>2 DEF RelayOutput
  <2> QED
    BY <1>2, <2>1, <2>2, <2>3, RelayedStep DEF RelayOutput
<1>3. CASE RelayEof(c)
  <2>1. /\ relay' \in Relay /\ relay'.cl = c /\ relay.cl = c /\ relay'.plugin = relay.plugin
        /\ relay'.at # "idle" /\ relay'.stdin = relay.stdin
    BY <1>3 DEF RelayEof, Relaying, Relay
  <2>2. EndsEarly'
    BY <1>3 DEF RelayEof, Relaying, Relay, EndsEarly, Eof
  <2> QED
    BY <1>3, <2>1, <2>2, RelayedStep DEF RelayEof
<1>4. CASE CgiTimeout(c) \/ LuaTimeout(c)
  <2>1. /\ relay' \in Relay /\ relay'.cl = c /\ relay.cl = c /\ relay'.plugin = relay.plugin
        /\ relay'.at # "idle" /\ relay'.stdin = relay.stdin
    BY <1>4 DEF CgiTimeout, LuaTimeout, Quiet, Relaying, Relay
  <2>2. EndsEarly'
    BY <1>4 DEF CgiTimeout, LuaTimeout, Quiet, Relaying, Relay, EndsEarly
  <2> QED
    BY <1>4, <2>1, <2>2, RelayedStep DEF CgiTimeout, LuaTimeout
<1>5. CASE Terminate(c)
  <2>1. /\ relay' \in Relay /\ relay'.cl = c /\ relay.cl = c /\ relay'.plugin = relay.plugin
        /\ relay'.at # "idle" /\ relay'.stdin # "due"
        /\ relay'.stdin # relay.stdin => relay.stdin = "due"
    BY <1>5 DEF Terminate, Relay
  <2>2. EndsEarly'
    BY <1>5 DEF Terminate, Relay, EndsEarly
  <2> QED
    BY <1>5, <2>1, <2>2, RelayedStep DEF Terminate
<1> QED
  BY <1>1, <1>2, <1>3, <1>4, <1>5

\* The server goes on when the process is gone.
LEMMA WaitStep ==
    ASSUME WInv, NEW c \in Clients, Wait(c)
    PROVE  WInv'
  BY ClosedStep DEF Wait, WInv, WebTypeOK

-----------------------------------------------------------------------------
\* The script's process: what its steps have in common.
LEMMA ProcessStep ==
    ASSUME WInv, NEW c \in Clients, Alive(c), NEW p \in Process, To(c, p),
           out' \in [Clients -> BOOLEAN], \A d \in Clients : d # c => out'[d] = out[d],
           out'[c] => p \in {"none", "writing", "answered"},
           relay.stdin = "due" => p \in {"none", "started"},
           EndsEarly'
    PROVE  WInv'
<1> USE DEF WInv, WebTypeOK, To, server
<1>1. relay.cl = c /\ proc' \in [Clients -> Process] /\ proc'[c] = p
  BY DEF OneHandler
<1>2. OneHandler' /\ Answering'
  BY <1>1 DEF OneHandler, Alive, Answering
<1>3. Visits'
  BY DEF Visits
<1>4. Relayed'
  BY <1>1 DEF Relayed
<1> QED
  BY <1>1, <1>2, <1>3, <1>4

\* The steps of the process.
LEMMA ScriptStep ==
    ASSUME WInv, NEW c \in Clients, Script(c) \/ Hang(c)
    PROVE  WInv'
<1> USE DEF WInv, WebTypeOK
<1>1. CASE ReadForm(c)
  <2>1. Alive(c) /\ "running" \in Process /\ To(c, "running") /\ ~out[c] /\ relay.stdin # "due"
    BY <1>1 DEF ReadForm, Alive, Process, Answering
  <2>2. EndsEarly'
    BY <1>1 DEF ReadForm, To, server, EndsEarly
  <2> QED
    BY <1>1, <2>1, <2>2, ProcessStep DEF ReadForm
<1>2. CASE Write(c)
  <2>1. Alive(c) /\ "writing" \in Process /\ To(c, "writing")
    BY <1>2 DEF Write, Alive, Process
  <2>2. relay.cl = c /\ relay.stdin # "due"
    BY <1>2, <2>1 DEF Write, OneHandler, Relayed
  <2>3. EndsEarly'
    BY <1>2, <2>2 DEF Write, To, server, EndsEarly
  <2> QED
    BY <1>2, <2>1, <2>2, <2>3, ProcessStep DEF Write
<1>3. CASE Reply(c)
  <2>1. Alive(c) /\ "answered" \in Process /\ To(c, "answered")
    BY <1>3 DEF Reply, Alive, Process
  <2>2. relay.cl = c /\ relay.stdin # "due"
    BY <1>3, <2>1 DEF Reply, OneHandler, Relayed
  <2>3. EndsEarly'
    BY <1>3, <2>2 DEF Reply, To, server, EndsEarly
  <2> QED
    BY <1>3, <2>1, <2>2, <2>3, ProcessStep DEF Reply
<1>4. CASE Exit(c) \/ Die(c)
  <2>1. Alive(c) /\ "none" \in Process /\ To(c, "none") /\ UNCHANGED out
    BY <1>4 DEF Exit, Die, Alive, Process
  <2>2. EndsEarly'
    BY <2>1 DEF OneHandler, To, server, EndsEarly
  <2> QED
    BY <2>1, <2>2, ProcessStep
<1>5. CASE Hang(c)
  <2>1. Alive(c) /\ "hung" \in Process /\ To(c, "hung") /\ ~out[c]
    BY <1>5 DEF Hang, Alive, Process, Answering
  <2>2. relay.cl = c /\ relay.stdin # "due"
    BY <1>5, <2>1 DEF Hang, OneHandler, Relayed
  <2>3. EndsEarly'
    BY <1>5, <2>2 DEF Hang, To, server, EndsEarly
  <2> QED
    BY <1>5, <2>1, <2>2, <2>3, ProcessStep DEF Hang
<1> QED
  BY <1>1, <1>2, <1>3, <1>4, <1>5 DEF Script

\* Every step keeps the invariant.
LEMMA WStep == WInv /\ [WebNext]_webvars => WInv'
<1> SUFFICES ASSUME WInv, [WebNext]_webvars PROVE WInv'
  OBVIOUS
<1>1. CASE Server
  BY <1>1, SelectStep, AcceptStep, ServeStep, ForkStep, RelayStep, WaitStep DEF Server
<1>2. CASE \E c \in Clients : Client(c) \/ Script(c) \/ Hang(c)
  BY <1>2, ClientStep, ScriptStep
<1>3. CASE UNCHANGED webvars
  BY <1>3 DEF webvars, server, WInv, WebTypeOK, OneHandler, Alive, Visits, Relayed, Answering, EndsEarly
<1> QED
  BY <1>1, <1>2, <1>3 DEF WebNext

\* The invariant holds in every reachable state.
LEMMA WAlways == WebSpec => []WInv
  BY WInit, WStep, PTL DEF WebSpec

\* The server's state keeps its types for any number of clients and whatever
\* they send, or fail to send.
THEOREM WebTypes == WebSpec => []WebTypeOK
<1>1. WInv => WebTypeOK
  BY DEF WInv
<1> QED
  BY <1>1, WAlways, PTL

\* uh_cgi_request and uh_lua_request never leave a script behind: no two
\* handlers of the SAN page run at the same time.
THEOREM OneHandlerAtATime == WebSpec => []OneHandler
<1>1. WInv => OneHandler
  BY DEF WInv
<1> QED
  BY <1>1, WAlways, PTL

-----------------------------------------------------------------------------
(***************************************************************************)
(* The refinement                                                          *)
(***************************************************************************)
\* A step the promise does not see.
Unseen ==
    relay'.cl = relay.cl /\ relay'.plugin = relay.plugin /\ Stage' = Stage /\ Input' = Input

\* Such a step is a stuttering step of WebServer.
LEMMA UnseenIsStutter == Unseen => [Abstract!ServerNext]_(Abstract!servervars)
  BY DEF Unseen, Abstract!servervars

\* What clients do to their sockets is not seen by the script, which has
\* the input it was fed.
LEMMA ClientsUnseen ==
    ASSUME WInv, NEW c \in Clients, Client(c)
    PROVE  Unseen
<1>1. UNCHANGED <<relay, proc>>
  BY DEF Client, Connect, SendHead, SendForm, Leave, server
<1>2. relay.cl # NoClient => (sock'[relay.cl].form = "none" <=> sock[relay.cl].form = "none")
  <2> SUFFICES ASSUME relay.cl # NoClient
               PROVE  sock'[relay.cl].form = "none" <=> sock[relay.cl].form = "none"
    OBVIOUS
  <2>1. /\ relay.cl \in Clients /\ relay.cl \in open /\ sock[relay.cl].head = "read"
        /\ sock \in [Clients -> Socket]
    BY DEF WInv, WebTypeOK, Relayed, Relay
  <2>2. CASE Connect(c) \/ SendHead(c)
    BY <2>1, <2>2 DEF Connect, SendHead, Connected
  <2>3. CASE SendForm(c)
    BY <2>1, <2>3 DEF SendForm, Socket
  <2>4. CASE Leave(c)
    BY <2>1, <2>4 DEF Leave, Socket
  <2> QED
    BY <2>2, <2>3, <2>4 DEF Client
<1>3. Stage' = Stage
  BY <1>1 DEF Stage
<1>4. Stage # "none" => relay.cl # NoClient
  BY DEF Stage
<1> QED
  BY <1>1, <1>2, <1>3, <1>4 DEF Unseen, Input

\* The loop over the sockets is not seen.
LEMMA LoopUnseen ==
    ASSUME WInv, NEW c \in Clients, Select \/ Accept \/ Serve(c)
    PROVE  Unseen
<1>1. relay' = relay /\ sock' = sock /\ proc' = proc
  BY DEF Select, Accept, Serve, Visited, Closed
<1> QED
  BY <1>1 DEF Unseen, Stage, Input

\* The script is past reading when the server is past feeding.
LEMMA StageAndInput ==
    ASSUME WInv, relay.stdin = "due"
    PROVE  Stage \in {"none", "started"}
  BY DEF WInv, Relayed, Stage

\* The relay loop is not seen.
LEMMA RelayUnseen ==
    ASSUME WInv, NEW c \in Clients,
           \/ RelayForm(c) \/ RelayOutput(c) \/ RelayEof(c) \/ CgiTimeout(c) \/ LuaTimeout(c) \/ Terminate(c)
    PROVE  Unseen
<1>1. /\ relay'.cl = relay.cl /\ relay'.plugin = relay.plugin /\ UNCHANGED <<sock, proc>>
      /\ relay'.stdin # relay.stdin => relay.stdin = "due"
  BY RelayStep
<1>2. Stage' = Stage
  BY <1>1 DEF Stage
<1> QED
  BY <1>1, <1>2, StageAndInput DEF Unseen, Input

\* A fork starts a request.
LEMMA ForkStarts ==
    ASSUME WInv, NEW c \in Clients, Fork(c)
    PROVE  Abstract!Start(c)
<1>1. relay.cl = NoClient /\ relay'.cl = c /\ c # NoClient /\ relay'.plugin \in Plugins
  BY DEF Fork, Visited, Idle
<1>2. proc'[c] = "started"
  BY DEF Fork, WInv, WebTypeOK
<1>3. Stage = "none" /\ Stage' = "started"
  BY <1>1, <1>2 DEF Stage
<1> QED
  BY <1>1, <1>3 DEF Abstract!Start, Input

\* The end of waiting releases the server.
LEMMA WaitReleases ==
    ASSUME WInv, NEW c \in Clients, Wait(c)
    PROVE  Abstract!Release(c)
<1>1. relay.cl = c /\ relay'.cl = NoClient /\ c # NoClient /\ proc[c] = "none"
  BY DEF Wait, Closed, Idle, Alive
<1>2. Stage = "none" /\ Stage' = "none"
  BY <1>1 DEF Stage
<1> QED
  BY <1>1, <1>2 DEF Abstract!Release, Input

\* What a step of the process looks like; Die is where the promise is at
\* stake.
LEMMA ScriptImplements ==
    ASSUME WInv, NEW c \in Clients, Script(c) \/ Hang(c)
    PROVE  \/ Abstract!ReadForm(c) \/ Abstract!Reply(c) \/ Abstract!End(c)
           \/ Unseen
<1>1. relay.cl = c /\ relay' = relay /\ sock' = sock /\ c # NoClient
  BY DEF Script, ReadForm, Write, Reply, Exit, Die, Hang, To, server, WInv, OneHandler, Alive
<1>2. /\ Stage = CASE proc[c] = "writing" -> "answered" [] proc[c] = "hung" -> "running"
                    [] OTHER -> proc[c]
      /\ Stage' = CASE proc'[c] = "writing" -> "answered" [] proc'[c] = "hung" -> "running"
                     [] OTHER -> proc'[c]
  BY <1>1 DEF Stage
<1>3. ASSUME NEW p, To(c, p) PROVE proc'[c] = p
  BY <1>3 DEF To, WInv, WebTypeOK
<1>4. Stage \notin {"none", "started"} /\ Stage' \notin {"none", "started"} => Input' = Input
  BY <1>1 DEF Input
<1>5. CASE ReadForm(c)
  <2>1. proc[c] = "started" /\ proc'[c] = "running"
    BY <1>3, <1>5 DEF ReadForm
  <2>2. Stage = "started" /\ Stage' = "running"
    BY <1>2, <2>1
  <2>3. Input' \in {"page", "form", "late"}
    BY <2>2 DEF Input
  <2> QED
    BY <1>1, <2>2, <2>3 DEF Abstract!ReadForm
<1>6. CASE Write(c) \/ Reply(c)
  <2>1. proc[c] \in {"running", "writing"} /\ proc'[c] \in {"writing", "answered"}
    BY <1>3, <1>6 DEF Write, Reply
  <2>2. Stage \in {"running", "answered"} /\ Stage' = "answered"
    BY <1>2, <2>1
  <2> QED
    BY <1>1, <1>4, <2>2 DEF Abstract!Reply, Unseen
<1>7. CASE Exit(c) \/ Die(c)
  <2>1. proc'[c] = "none" /\ proc[c] # "none" /\ proc[c] \in Process
    BY <1>3, <1>7 DEF Exit, Die, Alive, WInv, WebTypeOK
  <2>2. Stage' = "none" /\ Input' = "none"
    BY <1>2, <2>1 DEF Input
  <2>3. Stage \in {"started", "running", "answered"}
    BY <1>2, <2>1 DEF Process
  <2>4. Stage = "running" => relay.plugin = "lua" \/ Input = "late"
    <3>1. Stage = "running" => proc[c] \in {"running", "hung"}
      BY <1>2, <2>1 DEF Process
    <3>2. proc[c] \in {"running", "hung"} => relay.at = "wait" /\ relay.stdin # "due"
      BY <1>1, <1>7 DEF Exit, Die, WInv, Relayed
    <3>3. proc[c] \in {"running", "hung"} => relay.plugin = "lua" \/ relay.stdin = "late"
      BY <1>1, <3>2 DEF WInv, EndsEarly
    <3>4. Stage = "running" /\ relay.stdin = "late" => Input = "late"
      BY DEF Input
    <3> QED
      BY <3>1, <3>3, <3>4
  <2> QED
    BY <1>1, <2>2, <2>3, <2>4 DEF Abstract!End
<1>8. CASE Hang(c)
  <2>1. proc[c] = "running" /\ proc'[c] = "hung"
    BY <1>3, <1>8 DEF Hang
  <2>2. Stage = "running" /\ Stage' = "running"
    BY <1>2, <2>1
  <2> QED
    BY <1>1, <1>4, <2>2 DEF Unseen
<1> QED
  BY <1>5, <1>6, <1>7, <1>8 DEF Script

\* Every step is one of WebServer or stutters.
LEMMA Implements == WInv /\ [WebNext]_webvars => [Abstract!ServerNext]_(Abstract!servervars)
<1> SUFFICES ASSUME WInv, [WebNext]_webvars PROVE [Abstract!ServerNext]_(Abstract!servervars)
  OBVIOUS
<1>1. CASE Select \/ Accept
  <2>1. relay' = relay /\ sock' = sock /\ proc' = proc
    BY <1>1 DEF Select, Accept
  <2>2. Unseen
    BY <2>1 DEF Unseen, Stage, Input
  <2> QED
    BY <2>2, UnseenIsStutter
<1>2. ASSUME NEW c \in Clients, Fork(c) PROVE Abstract!ServerNext
  BY <1>2, ForkStarts DEF Abstract!ServerNext
<1>3. ASSUME NEW c \in Clients, Wait(c) PROVE Abstract!ServerNext
  BY <1>3, WaitReleases DEF Abstract!ServerNext
<1>4. ASSUME NEW c \in Clients,
             \/ Client(c) \/ Serve(c)
             \/ RelayForm(c) \/ RelayOutput(c) \/ RelayEof(c) \/ CgiTimeout(c) \/ LuaTimeout(c) \/ Terminate(c)
      PROVE  [Abstract!ServerNext]_(Abstract!servervars)
  BY <1>4, ClientsUnseen, LoopUnseen, RelayUnseen, UnseenIsStutter
<1>5. ASSUME NEW c \in Clients, Script(c) \/ Hang(c)
      PROVE  [Abstract!ServerNext]_(Abstract!servervars)
  BY <1>5, ScriptImplements, UnseenIsStutter DEF Abstract!ServerNext
<1>6. CASE UNCHANGED webvars
  <2>1. relay' = relay /\ sock' = sock /\ proc' = proc
    BY <1>6 DEF webvars, server
  <2>2. Unseen
    BY <2>1 DEF Unseen, Stage, Input
  <2> QED
    BY <2>2, UnseenIsStutter
<1> QED
  BY <1>1, <1>2, <1>3, <1>4, <1>5, <1>6 DEF WebNext, Server

\* The Web server implements the promise of module WebServer: one request
\* after another, its script ended only before it has its form, after it has
\* begun to answer, by the Lua plugin's timeout, or when its form came too
\* late.
THEOREM ServerImplementsPromise == WebSpec => ServesOneByOne
<1>1. WebInit => Abstract!ServerInit
  BY DEF WebInit, Abstract!ServerInit, Stage, Input, Idle
<1> QED
  BY <1>1, WAlways, Implements, PTL DEF WebSpec, ServesOneByOne, Abstract!ServerSpec
=============================================================================
