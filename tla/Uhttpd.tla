------------------------------- MODULE Uhttpd -------------------------------
(***************************************************************************)
(* The Web server (package/uhttpd): one process that accepts connections   *)
(* (uh_mainloop) and, for a request a script answers, forks the script and *)
(* relays its input and output itself: uh_cgi_request, or uh_lua_request   *)
(* for a URL below lua_prefix (not set by default).  While it relays it    *)
(* serves nobody else, and it does not return before the script's process  *)
(* is gone: that is what makes the handlers of the SAN page run one after  *)
(* another.                                                                *)
(*                                                                         *)
(* The kernel (sockets, pipes, signals) and the script are external; a     *)
(* message is a unit, bytes and headers are left out.                      *)
(***************************************************************************)
EXTENDS Sequences, FiniteSets

CONSTANTS
    Clients,    \* browsers
    NoClient,   \* nobody's request is being relayed
    Listener,   \* the listening socket
    Plugins,    \* what requests are handed to: "cgi", "lua"
    Hangs       \* those whose scripts may wait for ever for a command

ASSUME ClientsAssumption == NoClient \notin Clients /\ Listener \notin Clients
ASSUME PluginsAssumption == Plugins \subseteq {"cgi", "lua"} /\ Hangs \subseteq Plugins

VARIABLES
    backlog,    \* clients whose connection is not accepted yet, in order
    open,       \* clients whose connection is in used_fds
    sock,       \* per client: what it has sent and the server has not read
    todo,       \* read_fds: the sockets the present pass has still to visit
    relay,      \* the client whose request is relayed, and how far it is
    header_sent,\* some output of the script was passed on
    expired,    \* select() has returned 0 (script_timeout) in this relay
    proc,       \* per client: the script process forked for its request
    out         \* per client: output of the script is in the pipe

server == <<todo, relay, header_sent, expired>>
webvars == <<backlog, open, sock, server, proc, out>>

Socket == [head: {"none", "partial", "get", "post", "read"},
           form: {"none", "due", "sent"},
           gone: BOOLEAN]

NewSocket == [head |-> "none", form |-> "none", gone |-> FALSE]

\* The stages of the relay, and of the script's process: it reads the form,
\* runs, writes, closes its output, is gone; a hung one never goes on.
Relay == [cl: Clients \cup {NoClient}, at: {"idle", "relay", "out", "wait"},
          stdin: {"due", "fed", "cut", "late"}, plugin: {"cgi", "lua"}]
Process == {"none", "started", "running", "writing", "answered", "hung"}

Idle == [cl |-> NoClient, at |-> "idle", stdin |-> "fed", plugin |-> "cgi"]

WebTypeOK ==
    /\ backlog \in Seq(Clients)
    /\ open \in SUBSET Clients
    /\ sock \in [Clients -> Socket]
    /\ todo \in SUBSET (Clients \cup {Listener})
    /\ relay \in Relay
    /\ header_sent \in BOOLEAN /\ expired \in BOOLEAN
    /\ proc \in [Clients -> Process]
    /\ out \in [Clients -> BOOLEAN]

WebInit ==
    /\ backlog = <<>>
    /\ open = {}
    /\ sock = [c \in Clients |-> NewSocket]
    /\ todo = {}
    /\ relay = Idle
    /\ header_sent = FALSE /\ expired = FALSE
    /\ proc = [c \in Clients |-> "none"]
    /\ out = [c \in Clients |-> FALSE]

Waiting(c) == \E i \in DOMAIN backlog : backlog[i] = c
Connected(c) == c \in open \/ Waiting(c)
Alive(c) == proc[c] # "none"

-----------------------------------------------------------------------------
(***************************************************************************)
(* The clients                                                             *)
(***************************************************************************)
Connect(c) ==
    /\ ~Connected(c)
    /\ backlog' = Append(backlog, c)
    /\ sock' = [sock EXCEPT ![c] = NewSocket]
    /\ UNCHANGED <<open, server, proc, out>>

\* A request for the page, the header of a form, or half a header.
SendHead(c) ==
    /\ Connected(c) /\ sock[c].head = "none" /\ ~sock[c].gone
    /\ \E h \in {"partial", "get", "post"} :
          sock' = [sock EXCEPT ![c] = [head |-> h, gone |-> FALSE,
                                       form |-> IF h = "post" THEN "due" ELSE "none"]]
    /\ UNCHANGED <<backlog, open, server, proc, out>>

SendForm(c) ==
    /\ Connected(c) /\ sock[c].form = "due" /\ ~sock[c].gone
    /\ sock' = [sock EXCEPT ![c] = [@ EXCEPT !.form = "sent"]]
    /\ UNCHANGED <<backlog, open, server, proc, out>>

\* The window is closed or the line is lost; what was sent is still there.
Leave(c) ==
    /\ Connected(c) /\ ~sock[c].gone
    /\ sock' = [sock EXCEPT ![c] = [@ EXCEPT !.gone = TRUE]]
    /\ UNCHANGED <<backlog, open, server, proc, out>>

Client(c) == Connect(c) \/ SendHead(c) \/ SendForm(c) \/ Leave(c)

-----------------------------------------------------------------------------
(***************************************************************************)
(* uh_mainloop                                                             *)
(***************************************************************************)
Readable(c) ==
    c \in open /\ (sock[c].head \in {"partial", "get", "post"} \/ sock[c].gone)

\* Mutant: connections are read from only while no other is waiting.
Select_accepting ==
    /\ relay = Idle /\ todo = {}
    /\ todo' = IF backlog # <<>> THEN {Listener} ELSE {c \in Clients : Readable(c)}
    /\ todo' # {}
    /\ UNCHANGED <<backlog, open, sock, relay, header_sent, expired, proc, out>>

\* select(): sleeps until some socket can be read; then a pass over those.
Select ==
    /\ relay = Idle /\ todo = {}
    /\ todo' = {c \in Clients : Readable(c)} \cup {l \in {Listener} : backlog # <<>>}
    /\ todo' # {}
    /\ UNCHANGED <<backlog, open, sock, relay, header_sent, expired, proc, out>>

\* accept(): one connection a pass.  The listening socket has the lowest
\* number and is visited first.  Without memory the client is closed again.
Accept ==
    /\ relay = Idle /\ Listener \in todo
    /\ todo' = todo \ {Listener}
    /\ backlog' = Tail(backlog)
    /\ open' \in {open, open \cup {Head(backlog)}}
    /\ UNCHANGED <<sock, relay, header_sent, expired, proc, out>>

Visited(c) == relay = Idle /\ Listener \notin todo /\ c \in todo

\* uh_http_header_recv finds a whole header.
HeaderReceived(c) == sock[c].head \in {"get", "post"}

\* The end of every request: close(), FD_CLR, uh_client_remove.
Closed(c) ==
    /\ open' = open \ {c}
    /\ todo' = todo \ {c}
    /\ relay' = Idle
    /\ UNCHANGED backlog

\* uh_http_header_recv returns NULL (end of file, or no whole header within
\* 0.1 s), or the request needs no script: a file, an error, no process.
Serve(c) ==
    /\ Visited(c)
    /\ Closed(c)
    /\ UNCHANGED <<sock, header_sent, expired, proc, out>>

\* Mutant: how far the form has come is taken for what the script was fed.
Fork_form(c) ==
    /\ Visited(c) /\ HeaderReceived(c)
    /\ sock' = [sock EXCEPT ![c] = [@ EXCEPT !.head = "read"]]
    /\ \E p \in Plugins :
          relay' = [cl |-> c, at |-> "relay", plugin |-> p, stdin |-> sock[c].form]
    /\ header_sent' = FALSE /\ expired' = FALSE
    /\ proc' = [proc EXCEPT ![c] = "started"]
    /\ UNCHANGED <<backlog, open, todo, out>>

\* uh_dispatch_request: the script is forked.
Fork(c) ==
    /\ Visited(c) /\ HeaderReceived(c)
    /\ sock' = [sock EXCEPT ![c] = [@ EXCEPT !.head = "read"]]
    /\ \E p \in Plugins :
          relay' = [cl |-> c, at |-> "relay", plugin |-> p,
                    stdin |-> IF sock[c].head = "post" THEN "due" ELSE "fed"]
    /\ header_sent' = FALSE /\ expired' = FALSE
    /\ proc' = [proc EXCEPT ![c] = "started"]
    /\ UNCHANGED <<backlog, open, todo, out>>

-----------------------------------------------------------------------------
(***************************************************************************)
(* uh_cgi_request, uh_lua_request: the relay loop                          *)
(***************************************************************************)
Relaying(c) == relay.cl = c /\ relay.at = "relay"

\* The script has closed its output, or is gone.
Eof(c) == ~out[c] /\ proc[c] \in {"none", "answered"}

\* The form, the end of file, or nothing within network_timeout.
uh_tcp_recv(c) ==
    IF sock[c].form = "sent" THEN "form" ELSE IF sock[c].gone THEN "eof" ELSE "error"

\* An error ends the loop for CGI and counts as the end of the form for Lua.
FormFailed ==
    IF relay.plugin = "cgi" THEN [relay EXCEPT !.at = "out"] ELSE [relay EXCEPT !.stdin = "cut"]

\* The form is passed on to the script, or cut off ("unexpected eof!").
RelayForm(c) ==
    /\ Relaying(c) /\ relay.stdin = "due"
    /\ \/ uh_tcp_recv(c) = "form" /\ relay' = [relay EXCEPT !.stdin = "fed"]
       \/ uh_tcp_recv(c) = "eof" /\ relay' = [relay EXCEPT !.stdin = "cut"]
       \/ uh_tcp_recv(c) = "error" /\ relay' = FormFailed
    /\ UNCHANGED <<backlog, open, sock, todo, header_sent, expired, proc, out>>

\* What the script wrote is sent on (by CGI not before the script's header
\* is complete); an error (the client is gone or does not read) ends the
\* loop.
RelayOutput(c) ==
    /\ Relaying(c) /\ out[c]
    /\ out' = [out EXCEPT ![c] = FALSE]
    /\ \/ header_sent' = TRUE /\ UNCHANGED relay
       \/ relay.plugin = "cgi" /\ UNCHANGED <<header_sent, relay>>
       \/ relay' = [relay EXCEPT !.at = "out"] /\ UNCHANGED header_sent
    /\ UNCHANGED <<backlog, open, sock, todo, expired, proc>>

RelayEof(c) ==
    /\ Relaying(c) /\ Eof(c)
    /\ relay' = [relay EXCEPT !.at = "out"]
    /\ UNCHANGED <<backlog, open, sock, todo, header_sent, expired, proc, out>>

\* select() has nothing to report for script_timeout.
Quiet(c) == Relaying(c) /\ relay.stdin # "due" /\ ~out[c] /\ ~Eof(c)

\* Mutant: a CGI script that takes too long is ended, as a Lua script is.
CgiTimeout_ends(c) ==
    /\ Quiet(c) /\ relay.plugin = "cgi"
    /\ expired' = TRUE
    /\ relay' = [relay EXCEPT !.at = "out"]
    /\ UNCHANGED <<backlog, open, sock, todo, header_sent, proc, out>>

\* CGI: kill(child, 0) tells that the script still runs, and the loop goes
\* on (the branch that answers 504 is for a result below 0, which ensure_out
\* has taken to "out" before).
CgiTimeout(c) ==
    /\ Quiet(c) /\ relay.plugin = "cgi"
    /\ expired' = TRUE
    /\ UNCHANGED <<backlog, open, sock, todo, relay, header_sent, proc, out>>

\* Mutant: the Lua plugin looks whether the script lives, as CGI does.
LuaTimeout_check(c) ==
    /\ Quiet(c) /\ relay.plugin = "lua" /\ ~header_sent
    /\ expired' = TRUE
    /\ UNCHANGED <<backlog, open, sock, todo, relay, header_sent, proc, out>>

\* Lua: 504, and the loop ends; once something was sent there is no timeout.
LuaTimeout(c) ==
    /\ Quiet(c) /\ relay.plugin = "lua" /\ ~header_sent
    /\ expired' = TRUE
    /\ relay' = [relay EXCEPT !.at = "out"]
    /\ UNCHANGED <<backlog, open, sock, todo, header_sent, proc, out>>

\* "out:": both pipes are closed, which a script that still waits for its
\* form takes for the end of it, and SIGTERM is sent if the script is there;
\* it may take steps before the signal reaches it (Die) ...
Terminate(c) ==
    /\ relay.cl = c /\ relay.at = "out"
    /\ relay' = [relay EXCEPT !.at = "wait", !.stdin = IF @ = "due" THEN "late" ELSE @]
    /\ UNCHANGED <<backlog, open, sock, todo, header_sent, expired, proc, out>>

\* Mutant: the server does not wait for the process.
Wait_not(c) ==
    /\ relay.cl = c /\ relay.at = "wait"
    /\ Closed(c)
    /\ out' = [out EXCEPT ![c] = FALSE]
    /\ UNCHANGED <<sock, header_sent, expired, proc>>

\* ... and waitpid() returns when it is gone.
Wait(c) ==
    /\ relay.cl = c /\ relay.at = "wait" /\ ~Alive(c)
    /\ Closed(c)
    /\ out' = [out EXCEPT ![c] = FALSE]
    /\ UNCHANGED <<sock, header_sent, expired, proc>>

Server ==
    \/ Select \/ Accept
    \/ \E c \in Clients :
          \/ Serve(c) \/ Fork(c)
          \/ RelayForm(c) \/ RelayOutput(c) \/ RelayEof(c) \/ CgiTimeout(c) \/ LuaTimeout(c)
          \/ Terminate(c) \/ Wait(c)

-----------------------------------------------------------------------------
(***************************************************************************)
(* The script's process, as the server sees it (sgi/cgi.lua)               *)
(***************************************************************************)
To(c, p) == proc' = [proc EXCEPT ![c] = p] /\ UNCHANGED <<backlog, open, sock, server>>

\* It reads the form from its input, to the end: the whole of it was written,
\* the client went away, or the server gave up waiting for the rest.
ReadForm(c) ==
    proc[c] = "started" /\ relay.cl = c /\ relay.stdin # "due" /\ To(c, "running") /\ UNCHANGED out

\* It writes the first part of a page.
Write(c) == proc[c] = "running" /\ To(c, "writing") /\ out' = [out EXCEPT ![c] = TRUE]

\* It writes the answer, or the rest of it, and closes its output
\* (luci.http.close).
Reply(c) ==
    proc[c] \in {"running", "writing"} /\ To(c, "answered") /\ out' = [out EXCEPT ![c] = TRUE]

Exit(c) == proc[c] = "answered" /\ To(c, "none") /\ UNCHANGED out

\* SIGTERM takes effect; steps of the process may come before.
Die(c) ==
    Alive(c) /\ relay.cl = c /\ relay.at = "wait" /\ To(c, "none") /\ UNCHANGED out

\* It waits for a command that does not return; all of them are run before
\* anything is written.
Hang(c) ==
    relay.plugin \in Hangs /\ proc[c] = "running" /\ To(c, "hung") /\ UNCHANGED out

Script(c) == ReadForm(c) \/ Write(c) \/ Reply(c) \/ Exit(c) \/ Die(c)

-----------------------------------------------------------------------------
WebNext == Server \/ \E c \in Clients : Client(c) \/ Script(c) \/ Hang(c)

\* The server and the script are processes the kernel schedules; the clients
\* need not do anything.
WebSpec ==
    /\ WebInit /\ [][WebNext]_webvars
    /\ WF_webvars(Server)
    /\ \A c \in Clients : WF_webvars(Script(c))

-----------------------------------------------------------------------------
(***************************************************************************)
(* Properties                                                              *)
(***************************************************************************)

\* The script process of the request being relayed.
Stage ==
    IF relay.cl = NoClient THEN "none"
    ELSE CASE proc[relay.cl] = "writing" -> "answered"
           [] proc[relay.cl] = "hung" -> "running"
           [] OTHER -> proc[relay.cl]

Input ==
    IF Stage \in {"none", "started"} THEN "none"
    ELSE IF relay.stdin = "late" THEN "late"
    ELSE IF sock[relay.cl].form = "none" THEN "page" ELSE "form"

Abstract == INSTANCE WebServer WITH
    serving <- relay.cl, stage <- Stage, input <- Input,
    plugin <- IF relay.cl = NoClient THEN "none" ELSE relay.plugin

\* No two handlers run at the same time: a script's process is only there
\* while the server relays the request it was forked for (waitpid at the end
\* of uh_cgi_request and uh_lua_request).
OneHandler == \A c \in Clients : Alive(c) => relay.cl = c

\* The server keeps the promise the handlers are built on (WebServer): one
\* request after another, and with CGI a handler at work is ended before the
\* first byte of its answer only if its form came too late and the server
\* had given the request up when the handler got what there was of it.
ServesOneByOne == Abstract!ServerSpec

\* A client that has sent its request, or has left, is not forgotten: the
\* server comes to close its connection.  No client is
\* passed over for ever by the loop over the sockets, and a script the Lua
\* plugin runs cannot hold up the others for ever even if it hangs.
Served ==
    \A c \in Clients :
        (Connected(c) /\ (sock[c].head # "none" \/ sock[c].gone)) ~> ~Connected(c)

\* "CGI/Lua timeout, if the called script does not write data within the
\* given amount of seconds, the server will terminate the request with 504
\* Gateway Timeout response." (files/uhttpd.config)
TimeoutEndsRequest == (expired /\ ~header_sent) ~> (relay = Idle)
=============================================================================
