------------------------------ MODULE Requests ------------------------------
(***************************************************************************)
(* A request of the SAN page as it really runs: the Web server (WebServer) *)
(* has a process for it, and the handler in that process works through its *)
(* effects one by one - commits of the UCI package, scstadmin, sdparm -    *)
(* while the process may be ended and the power may be lost.               *)
(*                                                                         *)
(* Module Iscsi takes every handler for one step.  The refinement stated   *)
(* here says that this is right: seen from between the requests, the       *)
(* system with its single commits is the one of module Iscsi, except that  *)
(* a power loss, or the server's giving it up, may cut a request short.    *)
(*                                                                         *)
(* All volumes exist, no array fails and no initiator has a session (those *)
(* steps are Iscsi's), so no target is detached and no pattern is unknown. *)
(***************************************************************************)
EXTENDS WebServer, Scst

CONSTANTS NoPage, Flags, Origin, Arrays, ArrayOf,   \* as in module Iscsi
          NoRequest                                 \* no handler is at work

VARIABLES
    scst, kernel, writecache, page,   \* as in module Iscsi
    prog,       \* per client: the effects its handler has still to make
    before      \* history: what there was when the handler began

store == <<scst, kernel, writecache, page>>
vars == <<servervars, store, prog, before>>

\* What the code reads and computes is what module Iscsi says it is.
Now == INSTANCE Iscsi WITH
    Browsers <- Clients, sessions <- {}, devices <- Files, lvs <- Files, arrays <- Arrays

\* The states there can be between two requests.
Snapshots ==
    [scst: Seq(Section), kernel: Kernel, writecache: [Arrays -> BOOLEAN],
     page: [Clients -> Now!Page \cup {NoPage}]]

ASSUME RequestsAssumption ==
    /\ Flags \subseteq [enabled: BOOLEAN, readonly: BOOLEAN, writethrough: BOOLEAN]
    /\ ArrayOf \in [Files -> Arrays] /\ Origin \in [Files -> Files]
    /\ NoPage \notin Now!Page
    /\ NoRequest \notin Snapshots

Init ==
    /\ ServerInit
    /\ scst = <<>> /\ kernel = EmptyKernel
    /\ writecache = [a \in Arrays |-> TRUE]
    /\ page = [c \in Clients |-> NoPage]
    /\ prog = [c \in Clients |-> <<>>]
    /\ before = NoRequest

-----------------------------------------------------------------------------
(***************************************************************************)
(* What a handler is going to do, once it has read the store and made its  *)
(* checks: a sequence of effects.  <<"apply", s>> goes on with s if        *)
(* Daemon.apply raises an error.                                           *)
(***************************************************************************)

\* Mutant: the new section is committed before the old one is deleted.
Save_add_first(p) == <<<<"add", p>>, <<"delete", p.name>>>>

\* AccessPattern:save: one commit deletes the section, another adds it.
Save(p) == <<<<"delete", p.name>>, <<"add", p>>>>

\* matrix.caller, which does not catch the error.
PageLoad == <<<<"apply", <<>>>>, <<"render">>>>

New(n, l, fl) ==
    IF Now!NameExists(n) THEN <<>> ELSE <<<<"add", Now!Pattern(n, l, fl)>>>>

Delete(name) == IF ~Found(scst, name) THEN <<>> ELSE <<<<"delete", name[2].name>>>>

Edit(name, n, l, fl) ==
    IF ~Found(scst, name) \/ (n # name[2].name /\ Now!NameExists(n)) THEN <<>>
    ELSE Save(Now!Pattern(n, l, fl))

\* If the configuration cannot be applied the binding is taken back.
Bind(name, f) ==
    LET p == [name[2] EXCEPT !.filename = f]
    IN  IF \/ ~Found(scst, name)
           \/ Now!LunBusy(f, name[2].lun)
           \/ name[2].lun # 0 /\ ~Now!LunBusy(f, 0)
        THEN <<>>
        ELSE Save(p) \o <<<<"apply", Save(Unbound(p)) \o <<<<"apply", <<>>>>>>>>, <<"caching">>>>

\* If it cannot be applied the error is reported at once, which closes the
\* output: index_with_error without return.
Unbind(name) ==
    IF ~Found(scst, name) THEN <<>>
    ELSE Save(Unbound(name[2])) \o <<<<"apply", <<<<"reply">>, <<"caching">>>>>>, <<"caching">>>>

\* Reported first and then taken back.
AddCredential(u, f) ==
    IF \E i \in Credentials(scst) : scst[i].username = u /\ scst[i].filename = f THEN <<>>
    ELSE <<<<"add", [type |-> "auth-credential", username |-> u, filename |-> f]>>,
           <<"apply", <<<<"reply">>, <<"withdraw", u, f>>, <<"apply", <<>>>>>>>>>>

DeleteCredential(name) ==
    IF ~Found(scst, name) THEN <<>>
    ELSE <<<<"withdraw", name[2].username, name[2].filename>>, <<"apply", <<>>>>>>

\* The forms that can be sent from a page, and what they lead to; an invalid
\* form, or one that breaks off before the name of its button, leads to
\* nothing.
Programs(c) ==
    {<<>>}
    \cup (IF page[c] = NoPage THEN {}
          ELSE {New(n, l, fl) : n \in Names, l \in Luns, fl \in Flags}
               \cup {Delete(name) : name \in page[c].unbound}
               \cup {Edit(name, n, l, fl) : name \in page[c].unbound, n \in Names, l \in Luns, fl \in Flags}
               \cup {Bind(name, f) : name \in page[c].unbound, f \in page[c].volumes}
               \cup {Unbind(name) : name \in page[c].unbind}
               \cup {AddCredential(u, f) : u \in Users, f \in {g \in page[c].volumes : Origin[g] = g}}
               \cup {DeleteCredential(name) : name \in page[c].credentials})

-----------------------------------------------------------------------------
(***************************************************************************)
(* The handler's process                                                   *)
(***************************************************************************)
Snapshot == [scst |-> scst, kernel |-> kernel, writecache |-> writecache, page |-> page]

\* It has its form: the button's page is gone, the work to do is known.  Of
\* a form that was cut off LuCI decodes what has arrived, and the handler is
\* called if its button is among it (perform).
Begin(c) ==
    /\ ReadForm(c)
    /\ \E p \in IF input' = "page" THEN {PageLoad} ELSE Programs(c) :
          /\ prog' = [prog EXCEPT ![c] = p]
          /\ before' = IF p = <<>> THEN before ELSE Snapshot
    /\ page' = [page EXCEPT ![c] = NoPage]
    /\ UNCHANGED <<scst, kernel, writecache>>

Continue(c, p) ==
    /\ prog' = [prog EXCEPT ![c] = p]
    /\ before' = IF p = <<>> THEN NoRequest ELSE before

\* One effect.
Effect(c) ==
    LET e == Head(prog[c])
    IN  /\ serving = c /\ stage \in {"running", "answered"} /\ prog[c] # <<>>
        /\ \/ /\ e[1] = "delete"
              /\ scst' = delete_by_name(scst, e[2])
              /\ Continue(c, Tail(prog[c]))
              /\ UNCHANGED <<kernel, writecache, page, servervars>>
           \/ /\ e[1] = "withdraw"
              /\ scst' = delete_by_username_and_filename(scst, e[2], e[3])
              /\ Continue(c, Tail(prog[c]))
              /\ UNCHANGED <<kernel, writecache, page, servervars>>
           \/ /\ e[1] = "add"
              /\ scst' = Append(scst, e[2])
              /\ Continue(c, Tail(prog[c]))
              /\ UNCHANGED <<kernel, writecache, page, servervars>>
           \/ /\ e[1] = "apply"
              /\ \/ kernel' \in Applied(scst, Files, kernel) /\ Continue(c, Tail(prog[c]))
                 \/ kernel' \in ApplyRaised(scst, Files, kernel) /\ Continue(c, e[2])
              /\ UNCHANGED <<scst, writecache, page, servervars>>
           \/ /\ e[1] = "caching"
              /\ writecache' \in Now!CachingOutcomes(scst, Files, writecache)
              /\ Continue(c, Tail(prog[c]))
              /\ UNCHANGED <<scst, kernel, page, servervars>>
           \/ /\ e[1] = "render"
              /\ page' = [page EXCEPT ![c] = Now!Rendered(scst)]
              /\ Continue(c, Tail(prog[c]))
              /\ UNCHANGED <<scst, kernel, writecache, servervars>>
           \/ /\ e[1] = "reply"
              /\ Reply(c)
              /\ Continue(c, Tail(prog[c]))
              /\ UNCHANGED store

\* The redirect, or the page, when all is done.
Answer(c) ==
    /\ prog[c] = <<>>
    /\ Reply(c)
    /\ UNCHANGED <<store, prog, before>>

\* The process ends by itself, or by SIGTERM: what is left is not done.
Ended(c) == End(c) /\ Continue(c, <<>>) /\ UNCHANGED store

Handler(c) == Begin(c) \/ Effect(c) \/ Answer(c) \/ Ended(c)

\* Power is lost and comes back: the boot script applies the caching policy
\* and the configuration to what is in the store.
PowerLoss ==
    /\ serving' = NoClient /\ plugin' = "none" /\ stage' = "none" /\ input' = "none"
    /\ \E w \in [Arrays -> BOOLEAN] : writecache' \in Now!CachingOutcomes(scst, Files, w)
    /\ kernel' \in Applied(scst, Files, EmptyKernel) \cup ApplyRaised(scst, Files, EmptyKernel)
    /\ page' = [c \in Clients |-> NoPage]
    /\ prog' = [c \in Clients |-> <<>>]
    /\ before' = NoRequest
    /\ UNCHANGED scst

-----------------------------------------------------------------------------
Next ==
    \/ \E c \in Clients : Handler(c)
    \/ \E c \in Clients : (Start(c) \/ Release(c)) /\ UNCHANGED <<store, prog, before>>
    \/ PowerLoss

Spec == Init /\ [][Next]_vars

-----------------------------------------------------------------------------
(***************************************************************************)
(* Properties                                                              *)
(***************************************************************************)

\* The state between the requests: that before the one being handled.
Between == IF before = NoRequest THEN Snapshot ELSE before

Atomic == INSTANCE Iscsi WITH
    Browsers <- Clients, sessions <- {}, devices <- Files, lvs <- Files, arrays <- Arrays,
    scst <- Between.scst, kernel <- Between.kernel,
    writecache <- Between.writecache, page <- Between.page

\* t is s up to one pattern or one user's credential for a volume.
Near(s, t) ==
    \/ s = t
    \/ \E n \in Names : delete_by_name(s, n) = delete_by_name(t, n)
    \/ \E u \in Users, f \in Files :
          delete_by_username_and_filename(s, u, f) = delete_by_username_and_filename(t, u, f)

\* A restart in the middle of a request: the pattern it was about may be
\* lost (its section deleted and not yet added again) or half-way, the
\* credential be there or not, and every other section is where it was.
CutShort ==
    /\ Near(Between.scst, scst')
    /\ Between.kernel' \in Applied(scst', Files, EmptyKernel) \cup ApplyRaised(scst', Files, EmptyKernel)
    /\ Between.page' = [c \in Clients |-> NoPage]

\* The stores whose apply may have failed in this request: the present one,
\* or that with the binding which is being taken back.
Tried ==
    {scst} \cup {save(Between.scst, [Between.scst[i] EXCEPT !.filename = f]) :
                    i \in Patterns(Between.scst), f \in Files}

\* The server has given a request up, for its form came too late or the Lua
\* plugin's timeout is over, and its process was ended at work: the store
\* is that of a restart, the kernel has the export of before or what an
\* apply made of it, the drives' caches and the other pages are untouched.
GivenUp ==
    /\ stage = "running" /\ stage' = "none" /\ (plugin = "lua" \/ input = "late")
    /\ Near(Between.scst, scst')
    /\ \/ Between.kernel' \in {Between.kernel} \cup Applied(scst', Files, Between.kernel)
       \/ \E t \in Tried : Between.kernel' \in ApplyRaised(t, Files, Between.kernel)
    /\ Between.writecache' = Between.writecache
    /\ Between.page' = [Between.page EXCEPT ![serving] = NoPage]

\* Handlers are atomic, as module Iscsi has them: every request takes the
\* store, the kernel, the drives' caches and the pages from one state to the
\* next as one step of Iscsi does, although it makes several commits, may
\* fail between them and may be killed once it has answered - because the
\* Web server runs one handler at a time.  Only a power loss and a request
\* given up by the server show through, and they cost one access pattern or
\* credential at most.
AtomicHandlers == Atomic!Init /\ [][Atomic!Next \/ CutShort \/ GivenUp]_(Atomic!vars)

\* A power loss between two commits never leaves a pattern twice in the
\* store or two patterns with one LUN on a volume: whatever is applied at
\* the next boot is well-formed.
WellFormedStore == DistinctNames(scst) /\ DistinctLuns(scst)
=============================================================================
