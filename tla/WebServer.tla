----------------------------- MODULE WebServer -----------------------------
(***************************************************************************)
(* What the handlers of the SAN page rely on: the Web server runs one      *)
(* script process at a time, hands it its form, and ends it only before    *)
(* the form is complete or after the script has begun to answer - unless   *)
(* the plugin enforces the script timeout, as the one for Lua does, or the *)
(* form came too late: then the script's input is closed just before it is *)
(* ended, and it may have begun to work on the part that arrived.          *)
(*                                                                         *)
(* Module Uhttpd implements this specification; module Requests runs the   *)
(* handlers on it.                                                         *)
(***************************************************************************)
CONSTANTS
    Clients,    \* browsers
    NoClient,   \* nobody is being served
    Plugins     \* what requests are handed to: "cgi", "lua"

VARIABLES
    serving,    \* the client whose request is being served
    plugin,     \* what the request was handed to
    stage,      \* the script's process: not there, reading, working, answering
    input       \* what it has read: no form, the form or what the client sent
                \* of it, or a form the server cut off to give the request up

servervars == <<serving, plugin, stage, input>>

ServerInit == serving = NoClient /\ plugin = "none" /\ stage = "none" /\ input = "none"

\* A process is started for the request of c.
Start(c) ==
    /\ serving = NoClient /\ stage = "none"
    /\ serving' = c /\ stage' = "started"
    /\ plugin' \in Plugins
    /\ UNCHANGED input

ReadForm(c) ==
    /\ serving = c /\ stage = "started"
    /\ stage' = "running"
    /\ input' \in {"page", "form", "late"}
    /\ UNCHANGED <<serving, plugin>>

Reply(c) ==
    /\ serving = c /\ stage = "running"
    /\ stage' = "answered"
    /\ UNCHANGED <<serving, plugin, input>>

\* The process is gone: it ended, or it was sent SIGTERM.
End(c) ==
    /\ serving = c
    /\ stage = "running" => plugin = "lua" \/ input = "late"
    /\ stage # "none"
    /\ stage' = "none" /\ input' = "none"
    /\ UNCHANGED <<serving, plugin>>

Release(c) ==
    /\ serving = c /\ stage = "none"
    /\ serving' = NoClient /\ plugin' = "none"
    /\ UNCHANGED <<stage, input>>

ServerNext ==
    \E c \in Clients : Start(c) \/ ReadForm(c) \/ Reply(c) \/ End(c) \/ Release(c)

ServerSpec == ServerInit /\ [][ServerNext]_servervars
=============================================================================
