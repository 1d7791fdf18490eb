--------------------------- MODULE RequestsProofs ---------------------------
(***************************************************************************)
(* Requests on a server that runs one handler at a time, for any number of *)
(* clients, volumes, patterns and credentials and with every fault: the    *)
(* store is well-formed between any two commits, and every handler is one  *)
(* step of module Iscsi, unless its process is ended at work.              *)
(***************************************************************************)
EXTENDS Requests, ScstProofs, SequenceTheorems

(***************************************************************************)
(* The invariant.  While a handler is at work, what it has done and what   *)
(* it has still to do are given by the state before it and its position.   *)
(***************************************************************************)
Well(s) == s \in Seq(Section) /\ DistinctNames(s) /\ DistinctLuns(s)

\* The handler of c has p still to do, the store is s and the kernel in one
\* of the states K.
At(c, p, s, K, st) == prog[c] = p /\ scst = s /\ kernel \in K /\ stage = st

\* What there is to do on an apply that raised an error.
Back(q) == <<<<"delete", q.name>>, <<"add", q>>, <<"apply", <<>>>>>>
Report == <<<<"reply">>, <<"caching">>>>
Withdraw(u, f) == <<<<"reply">>, <<"withdraw", u, f>>, <<"apply", <<>>>>>>

\* Where each handler can be, from a store s and a kernel k.
LoadAt(c, s, k) ==
    \/ At(c, <<<<"apply", <<>>>>, <<"render">>>>, s, {k}, "running")
    \/ At(c, <<<<"render">>>>, s, Applied(s, Files, k), "running")

NewAt(c, s, k, p) == At(c, <<<<"add", p>>>>, s, {k}, "running")

DeleteAt(c, s, k, n) == At(c, <<<<"delete", n>>>>, s, {k}, "running")

EditAt(c, s, k, p) ==
    \/ At(c, <<<<"delete", p.name>>, <<"add", p>>>>, s, {k}, "running")
    \/ At(c, <<<<"add", p>>>>, delete_by_name(s, p.name), {k}, "running")

\* Both bind and unbind save p, apply, and go on with e or with the policy.
SaveAt(c, s, k, p, e) ==
    \/ At(c, <<<<"delete", p.name>>, <<"add", p>>, <<"apply", e>>, <<"caching">>>>, s, {k}, "running")
    \/ At(c, <<<<"add", p>>, <<"apply", e>>, <<"caching">>>>, delete_by_name(s, p.name), {k}, "running")
    \/ At(c, <<<<"apply", e>>, <<"caching">>>>, save(s, p), {k}, "running")
    \/ At(c, <<<<"caching">>>>, save(s, p), Applied(save(s, p), Files, k), "running")

BackAt(c, t, K, q) ==
    \/ At(c, Back(q), t, K, "running")
    \/ At(c, <<<<"add", q>>, <<"apply", <<>>>>>>, delete_by_name(t, q.name), K, "running")
    \/ At(c, <<<<"apply", <<>>>>>>, save(t, q), K, "running")

ReportAt(c, t, K) ==
    \/ At(c, Report, t, K, "running")
    \/ At(c, <<<<"caching">>>>, t, K, "answered")

AddAt(c, s, k, p) ==
    \/ At(c, <<<<"add", p>>, <<"apply", Withdraw(p.username, p.filename)>>>>, s, {k}, "running")
    \/ At(c, <<<<"apply", Withdraw(p.username, p.filename)>>>>, Append(s, p), {k}, "running")

WithdrawAt(c, t, K, u, f) ==
    \/ At(c, Withdraw(u, f), t, K, "running")
    \/ At(c, <<<<"withdraw", u, f>>, <<"apply", <<>>>>>>, t, K, "answered")
    \/ At(c, <<<<"apply", <<>>>>>>, delete_by_username_and_filename(t, u, f), K, "answered")

ExpelAt(c, s, k, u, f) ==
    \/ At(c, <<<<"withdraw", u, f>>, <<"apply", <<>>>>>>, s, {k}, "running")
    \/ At(c, <<<<"apply", <<>>>>>>, delete_by_username_and_filename(s, u, f), {k}, "running")

\* What the checks at the beginning found in the store s.
Absent(s, n) == \A i \in Patterns(s) : s[i].name # n
Free(s, f, l) == \A i \in BoundTo(s, f) : s[i].lun # l
Credential(u, f) == [type |-> "auth-credential", username |-> u, filename |-> f]
BoundPattern(name, f) == [name[2] EXCEPT !.filename = f]

\* The request of c: the page it came from, the checks it has passed, and
\* how far it has come.
Loading(c) == LoadAt(c, before.scst, before.kernel)

Creating(c) ==
    \E n \in Names, l \in Luns, fl \in Flags :
        /\ Absent(before.scst, n)
        /\ NewAt(c, before.scst, before.kernel, Now!Pattern(n, l, fl))

Deleting(c) ==
    \E name \in before.page[c].unbound :
        /\ Found(before.scst, name)
        /\ DeleteAt(c, before.scst, before.kernel, name[2].name)

Editing(c) ==
    \E name \in before.page[c].unbound, n \in Names, l \in Luns, fl \in Flags :
        /\ Found(before.scst, name) /\ (n = name[2].name \/ Absent(before.scst, n))
        /\ EditAt(c, before.scst, before.kernel, Now!Pattern(n, l, fl))

Binding(c) ==
    \E name \in before.page[c].unbound, f \in before.page[c].volumes :
        LET p == BoundPattern(name, f)
            s == before.scst
        IN  /\ Found(s, name) /\ Free(s, f, name[2].lun)
            /\ name[2].lun # 0 => ~Free(s, f, 0)
            /\ \/ SaveAt(c, s, before.kernel, p, Back(Unbound(p)))
               \/ BackAt(c, save(s, p), ApplyRaised(save(s, p), Files, before.kernel), Unbound(p))

Unbinding(c) ==
    \E name \in before.page[c].unbind :
        LET p == Unbound(name[2])
            s == before.scst
        IN  /\ Found(s, name)
            /\ \/ SaveAt(c, s, before.kernel, p, Report)
               \/ ReportAt(c, save(s, p), ApplyRaised(save(s, p), Files, before.kernel))

Adding(c) ==
    \E u \in Users, f \in before.page[c].volumes :
        LET p == Credential(u, f)
            s == before.scst
        IN  /\ Origin[f] = f
            /\ ~\E i \in Credentials(s) : s[i].username = u /\ s[i].filename = f
            /\ \/ AddAt(c, s, before.kernel, p)
               \/ WithdrawAt(c, Append(s, p), ApplyRaised(Append(s, p), Files, before.kernel), u, f)

Expelling(c) ==
    \E name \in before.page[c].credentials :
        /\ Found(before.scst, name)
        /\ ExpelAt(c, before.scst, before.kernel, name[2].username, name[2].filename)

Position(c) ==
    \/ Loading(c)
    \/ /\ before.page[c] # NoPage
       /\ \/ Creating(c) \/ Deleting(c) \/ Editing(c) \/ Binding(c)
          \/ Unbinding(c) \/ Adding(c) \/ Expelling(c)

\* The handler of c is at work, and no other.
Handling(c) ==
    /\ serving = c
    /\ \A d \in Clients \ {c} : prog[d] = <<>>
    /\ page = [before.page EXCEPT ![c] = NoPage]
    /\ writecache = before.writecache
    /\ Well(before.scst)
    /\ Near(before.scst, scst)
    /\ Position(c)

Types ==
    /\ scst \in Seq(Section) /\ kernel \in Kernel /\ writecache \in [Arrays -> BOOLEAN]
    /\ page \in [Clients -> Now!Page \cup {NoPage}]
    /\ plugin \in Plugins \cup {"none"}
    /\ prog = [c \in Clients |-> prog[c]]
    /\ before \in Snapshots \cup {NoRequest}

QInv ==
    /\ Types
    /\ DistinctNames(scst) /\ DistinctLuns(scst)
    /\ before = NoRequest => \A c \in Clients : prog[c] = <<>>
    /\ before # NoRequest => \E c \in Clients : Handling(c)

-----------------------------------------------------------------------------
(***************************************************************************)
(* Programs                                                                *)
(***************************************************************************)

\* The first effect of a program and the rest of it.
LEMMA Programs1 ==
    ASSUME NEW a
    PROVE  Head(<<a>>) = a /\ Tail(<<a>>) = <<>> /\ <<a>> # <<>>
OBVIOUS

LEMMA Programs2 ==
    ASSUME NEW a, NEW b
    PROVE  Head(<<a, b>>) = a /\ Tail(<<a, b>>) = <<b>> /\ <<a, b>> # <<>>
OBVIOUS

LEMMA Programs3 ==
    ASSUME NEW a, NEW b, NEW c
    PROVE  Head(<<a, b, c>>) = a /\ Tail(<<a, b, c>>) = <<b, c>> /\ <<a, b, c>> # <<>>
OBVIOUS

LEMMA Programs4 ==
    ASSUME NEW a, NEW b, NEW c, NEW d
    PROVE  Head(<<a, b, c, d>>) = a /\ Tail(<<a, b, c, d>>) = <<b, c, d>> /\ <<a, b, c, d>> # <<>>
OBVIOUS

\* Two programs after one another.
LEMMA ProgramsConcat3 ==
    ASSUME NEW a, NEW b, NEW c
    PROVE  <<a, b>> \o <<c>> = <<a, b, c>>
<1> DEFINE S == {a, b, c}
           s == <<a, b>>
           t == <<c>>
           u == s \o t
           v == <<a, b, c>>
<1>1. s \in Seq(S) /\ t \in Seq(S) /\ Len(s) = 2 /\ Len(t) = 1
  OBVIOUS
<1>2. s[1] = a /\ s[2] = b /\ t[1] = c
  OBVIOUS
<1>3. v \in Seq(S) /\ Len(v) = 3 /\ v[1] = a /\ v[2] = b /\ v[3] = c
  OBVIOUS
<1> HIDE DEF s, t, v, S
<1>4. /\ u \in Seq(S) /\ Len(u) = Len(s) + Len(t)
      /\ \A i \in 1..(Len(s) + Len(t)) : u[i] = IF i <= Len(s) THEN s[i] ELSE t[i - Len(s)]
  BY <1>1, ConcatProperties
<1> HIDE DEF u
<1>5. Len(u) = 3 /\ \A i \in 1..3 : u[i] = IF i <= 2 THEN s[i] ELSE t[i - 2]
  BY <1>1, <1>4
<1>6. u[1] = a /\ u[2] = b /\ u[3] = c
  BY <1>2, <1>5
<1>7. \A i \in 1..3 : u[i] = v[i]
  BY <1>3, <1>6
<1>8. u = v
  BY <1>3, <1>4, <1>5, <1>7, SeqEqual
<1> QED
  BY <1>8 DEF u, v, s, t

LEMMA ProgramsConcat4 ==
    ASSUME NEW a, NEW b, NEW c, NEW d
    PROVE  <<a, b>> \o <<c, d>> = <<a, b, c, d>>
<1> DEFINE S == {a, b, c, d}
           s == <<a, b>>
           t == <<c, d>>
           u == s \o t
           v == <<a, b, c, d>>
<1>1. s \in Seq(S) /\ t \in Seq(S) /\ Len(s) = 2 /\ Len(t) = 2
  OBVIOUS
<1>2. s[1] = a /\ s[2] = b /\ t[1] = c /\ t[2] = d
  OBVIOUS
<1>3. v \in Seq(S) /\ Len(v) = 4 /\ v[1] = a /\ v[2] = b /\ v[3] = c /\ v[4] = d
  OBVIOUS
<1> HIDE DEF s, t, v, S
<1>4. /\ u \in Seq(S) /\ Len(u) = Len(s) + Len(t)
      /\ \A i \in 1..(Len(s) + Len(t)) : u[i] = IF i <= Len(s) THEN s[i] ELSE t[i - Len(s)]
  BY <1>1, ConcatProperties
<1> HIDE DEF u
<1>5. Len(u) = 4 /\ \A i \in 1..4 : u[i] = IF i <= 2 THEN s[i] ELSE t[i - 2]
  BY <1>1, <1>4
<1>6. u[1] = a /\ u[2] = b /\ u[3] = c /\ u[4] = d
  BY <1>2, <1>5
<1>7. \A i \in 1..4 : u[i] = v[i]
  BY <1>3, <1>6
<1>8. u = v
  BY <1>3, <1>4, <1>5, <1>7, SeqEqual
<1> QED
  BY <1>8 DEF u, v, s, t

\* What every effect leaves alone, and that the request is over with the
\* last one.
LEMMA EffectFrame ==
    ASSUME Types, NEW c \in Clients, Effect(c)
    PROVE  /\ serving = c /\ serving' = c /\ plugin' = plugin
           /\ prog' = [prog EXCEPT ![c] = prog'[c]]
           /\ before' = IF prog'[c] = <<>> THEN NoRequest ELSE before
<1>1. PICK p : Continue(c, p) /\ serving = c /\ serving' = serving /\ plugin' = plugin
  BY DEF Effect, servervars, Reply
<1>2. prog' = [prog EXCEPT ![c] = p] /\ prog'[c] = p
  BY <1>1 DEF Continue, Types
<1> QED
  BY <1>1, <1>2 DEF Continue

\* What each effect does.
LEMMA DeleteEffect ==
    ASSUME Types, NEW c \in Clients, Effect(c), NEW n, Head(prog[c]) = <<"delete", n>>
    PROVE  /\ scst' = delete_by_name(scst, n) /\ prog'[c] = Tail(prog[c])
           /\ UNCHANGED <<kernel, writecache, page, stage>>
<1>1. /\ scst' = delete_by_name(scst, n) /\ Continue(c, Tail(prog[c]))
      /\ UNCHANGED <<kernel, writecache, page, servervars>>
  BY DEF Effect
<1> QED
  BY <1>1 DEF Continue, Types, servervars

LEMMA WithdrawEffect ==
    ASSUME Types, NEW c \in Clients, Effect(c), NEW u, NEW f, Head(prog[c]) = <<"withdraw", u, f>>
    PROVE  /\ scst' = delete_by_username_and_filename(scst, u, f) /\ prog'[c] = Tail(prog[c])
           /\ UNCHANGED <<kernel, writecache, page, stage>>
<1>1. /\ scst' = delete_by_username_and_filename(scst, u, f) /\ Continue(c, Tail(prog[c]))
      /\ UNCHANGED <<kernel, writecache, page, servervars>>
  BY DEF Effect
<1> QED
  BY <1>1 DEF Continue, Types, servervars

LEMMA AddEffect ==
    ASSUME Types, NEW c \in Clients, Effect(c), NEW p, Head(prog[c]) = <<"add", p>>
    PROVE  /\ scst' = Append(scst, p) /\ prog'[c] = Tail(prog[c])
           /\ UNCHANGED <<kernel, writecache, page, stage>>
<1>1. /\ scst' = Append(scst, p) /\ Continue(c, Tail(prog[c]))
      /\ UNCHANGED <<kernel, writecache, page, servervars>>
  BY DEF Effect
<1> QED
  BY <1>1 DEF Continue, Types, servervars

LEMMA ApplyEffect ==
    ASSUME Types, NEW c \in Clients, Effect(c), NEW e, Head(prog[c]) = <<"apply", e>>
    PROVE  /\ \/ kernel' \in Applied(scst, Files, kernel) /\ prog'[c] = Tail(prog[c])
              \/ kernel' \in ApplyRaised(scst, Files, kernel) /\ prog'[c] = e
           /\ UNCHANGED <<scst, writecache, page, stage>>
<1>1. /\ \/ kernel' \in Applied(scst, Files, kernel) /\ Continue(c, Tail(prog[c]))
         \/ kernel' \in ApplyRaised(scst, Files, kernel) /\ Continue(c, e)
      /\ UNCHANGED <<scst, writecache, page, servervars>>
  BY DEF Effect
<1> QED
  BY <1>1 DEF Continue, Types, servervars

LEMMA CachingEffect ==
    ASSUME Types, NEW c \in Clients, Effect(c), Head(prog[c]) = <<"caching">>
    PROVE  /\ writecache' \in Now!CachingOutcomes(scst, Files, writecache) /\ prog'[c] = Tail(prog[c])
           /\ UNCHANGED <<scst, kernel, page, stage>>
<1>1. /\ writecache' \in Now!CachingOutcomes(scst, Files, writecache) /\ Continue(c, Tail(prog[c]))
      /\ UNCHANGED <<scst, kernel, page, servervars>>
  BY DEF Effect
<1> QED
  BY <1>1 DEF Continue, Types, servervars

LEMMA RenderEffect ==
    ASSUME Types, NEW c \in Clients, Effect(c), Head(prog[c]) = <<"render">>
    PROVE  /\ page' = [page EXCEPT ![c] = Now!Rendered(scst)] /\ prog'[c] = Tail(prog[c])
           /\ UNCHANGED <<scst, kernel, writecache, stage>>
<1>1. /\ page' = [page EXCEPT ![c] = Now!Rendered(scst)] /\ Continue(c, Tail(prog[c]))
      /\ UNCHANGED <<scst, kernel, writecache, servervars>>
  BY DEF Effect
<1> QED
  BY <1>1 DEF Continue, Types, servervars

LEMMA ReplyEffect ==
    ASSUME Types, NEW c \in Clients, Effect(c), Head(prog[c]) = <<"reply">>
    PROVE  /\ stage = "running" /\ stage' = "answered" /\ prog'[c] = Tail(prog[c])
           /\ UNCHANGED <<scst, kernel, writecache, page>>
<1>1. Reply(c) /\ Continue(c, Tail(prog[c])) /\ UNCHANGED store
  BY DEF Effect
<1> QED
  BY <1>1 DEF Continue, Types, store, Reply

-----------------------------------------------------------------------------
(***************************************************************************)
(* From each position the next effect leads to the next position, or ends  *)
(* the request.                                                            *)
(***************************************************************************)

\* The request goes on, and only the store, the kernel and the stage change.
Further(c) == prog'[c] # <<>> /\ UNCHANGED <<writecache, page>>

\* It was the last effect.
Last(c) == prog'[c] = <<>>

LEMMA LoadStep ==
    ASSUME Types, NEW c \in Clients, Effect(c), NEW s, NEW k, LoadAt(c, s, k)
    PROVE  \/ LoadAt(c, s, k)' /\ Further(c)
           \/ /\ Last(c) /\ scst' = s /\ UNCHANGED writecache
              /\ \/ kernel' \in Applied(s, Files, k) /\ page' = [page EXCEPT ![c] = Now!Rendered(s)]
                 \/ kernel' \in ApplyRaised(s, Files, k) /\ UNCHANGED page
<1>1. CASE At(c, <<<<"apply", <<>>>>, <<"render">>>>, s, {k}, "running")
  <2>1. Head(prog[c]) = <<"apply", <<>>>> /\ Tail(prog[c]) = <<<<"render">>>>
    BY <1>1, Programs2 DEF At
  <2>2. /\ \/ kernel' \in Applied(s, Files, k) /\ prog'[c] = <<<<"render">>>>
           \/ kernel' \in ApplyRaised(s, Files, k) /\ prog'[c] = <<>>
        /\ UNCHANGED <<scst, writecache, page, stage>> /\ scst = s /\ stage = "running"
    BY <1>1, <2>1, ApplyEffect DEF At
  <2> QED
    BY <2>2, Programs1 DEF LoadAt, At, Further, Last
<1>2. CASE At(c, <<<<"render">>>>, s, Applied(s, Files, k), "running")
  <2>1. Head(prog[c]) = <<"render">> /\ Tail(prog[c]) = <<>>
    BY <1>2, Programs1 DEF At
  <2> QED
    BY <1>2, <2>1, RenderEffect DEF At, Last
<1> QED
  BY <1>1, <1>2 DEF LoadAt

LEMMA NewStep ==
    ASSUME Types, NEW c \in Clients, Effect(c), NEW s, NEW k, NEW p, NewAt(c, s, k, p)
    PROVE  Last(c) /\ scst' = Append(s, p) /\ kernel' = k /\ UNCHANGED <<writecache, page>>
<1>1. Head(prog[c]) = <<"add", p>> /\ Tail(prog[c]) = <<>>
  BY Programs1 DEF NewAt, At
<1> QED
  BY <1>1, AddEffect DEF NewAt, At, Last

LEMMA DeleteStep ==
    ASSUME Types, NEW c \in Clients, Effect(c), NEW s, NEW k, NEW n, DeleteAt(c, s, k, n)
    PROVE  Last(c) /\ scst' = delete_by_name(s, n) /\ kernel' = k /\ UNCHANGED <<writecache, page>>
<1>1. Head(prog[c]) = <<"delete", n>> /\ Tail(prog[c]) = <<>>
  BY Programs1 DEF DeleteAt, At
<1> QED
  BY <1>1, DeleteEffect DEF DeleteAt, At, Last

LEMMA EditStep ==
    ASSUME Types, NEW c \in Clients, Effect(c), NEW s, NEW k, NEW p, EditAt(c, s, k, p)
    PROVE  \/ EditAt(c, s, k, p)' /\ Further(c)
           \/ Last(c) /\ scst' = save(s, p) /\ kernel' = k /\ UNCHANGED <<writecache, page>>
<1>1. CASE At(c, <<<<"delete", p.name>>, <<"add", p>>>>, s, {k}, "running")
  <2>1. Head(prog[c]) = <<"delete", p.name>> /\ Tail(prog[c]) = <<<<"add", p>>>>
    BY <1>1, Programs2 DEF At
  <2>2. /\ scst' = delete_by_name(s, p.name) /\ prog'[c] = <<<<"add", p>>>>
        /\ kernel' = k /\ stage' = "running" /\ UNCHANGED <<writecache, page>>
    BY <1>1, <2>1, DeleteEffect DEF At
  <2> QED
    BY <2>2, Programs1 DEF EditAt, At, Further
<1>2. CASE At(c, <<<<"add", p>>>>, delete_by_name(s, p.name), {k}, "running")
  <2>1. Head(prog[c]) = <<"add", p>> /\ Tail(prog[c]) = <<>>
    BY <1>2, Programs1 DEF At
  <2> QED
    BY <1>2, <2>1, AddEffect DEF At, Last, save
<1> QED
  BY <1>1, <1>2 DEF EditAt

LEMMA SaveStep ==
    ASSUME Types, NEW c \in Clients, Effect(c), NEW s, NEW k, NEW p, NEW e, SaveAt(c, s, k, p, e)
    PROVE  \/ SaveAt(c, s, k, p, e)' /\ Further(c)
           \/ /\ scst' = save(s, p) /\ kernel' \in ApplyRaised(save(s, p), Files, k)
              /\ prog'[c] = e /\ stage' = "running" /\ UNCHANGED <<writecache, page>>
           \/ /\ Last(c) /\ scst' = save(s, p) /\ kernel' \in Applied(save(s, p), Files, k)
              /\ writecache' \in Now!CachingOutcomes(save(s, p), Files, writecache)
              /\ UNCHANGED page
<1> DEFINE x == <<"delete", p.name>>
           y == <<"add", p>>
           z == <<"apply", e>>
           w == <<"caching">>
<1>1. CASE At(c, <<x, y, z, w>>, s, {k}, "running")
  <2>1. Head(prog[c]) = x /\ Tail(prog[c]) = <<y, z, w>>
    BY <1>1, Programs4 DEF At
  <2>2. /\ scst' = delete_by_name(s, p.name) /\ prog'[c] = <<y, z, w>>
        /\ kernel' = k /\ stage' = "running" /\ UNCHANGED <<writecache, page>>
    BY <1>1, <2>1, DeleteEffect DEF At
  <2>3. prog'[c] # <<>>
    BY <2>2, Programs3
  <2> QED
    BY <2>2, <2>3 DEF SaveAt, At, Further
<1>2. CASE At(c, <<y, z, w>>, delete_by_name(s, p.name), {k}, "running")
  <2>1. Head(prog[c]) = y /\ Tail(prog[c]) = <<z, w>>
    BY <1>2, Programs3 DEF At
  <2>2. /\ scst' = save(s, p) /\ prog'[c] = <<z, w>>
        /\ kernel' = k /\ stage' = "running" /\ UNCHANGED <<writecache, page>>
    BY <1>2, <2>1, AddEffect DEF At, save
  <2>3. prog'[c] # <<>>
    BY <2>2, Programs2
  <2> QED
    BY <2>2, <2>3 DEF SaveAt, At, Further
<1>3. CASE At(c, <<z, w>>, save(s, p), {k}, "running")
  <2>1. Head(prog[c]) = z /\ Tail(prog[c]) = <<w>>
    BY <1>3, Programs2 DEF At
  <2>2. /\ \/ kernel' \in Applied(save(s, p), Files, k) /\ prog'[c] = <<w>>
           \/ kernel' \in ApplyRaised(save(s, p), Files, k) /\ prog'[c] = e
        /\ scst' = save(s, p) /\ stage' = "running" /\ UNCHANGED <<writecache, page>>
    BY <1>3, <2>1, ApplyEffect DEF At
  <2>3. prog'[c] = <<w>> => prog'[c] # <<>>
    BY Programs1
  <2> QED
    BY <2>2, <2>3 DEF SaveAt, At, Further
<1>4. CASE At(c, <<w>>, save(s, p), Applied(save(s, p), Files, k), "running")
  <2>1. Head(prog[c]) = w /\ Tail(prog[c]) = <<>>
    BY <1>4, Programs1 DEF At
  <2> QED
    BY <1>4, <2>1, CachingEffect DEF At, Last
<1> QED
  BY <1>1, <1>2, <1>3, <1>4 DEF SaveAt

LEMMA BackStep ==
    ASSUME Types, NEW c \in Clients, Effect(c), NEW t, NEW K, NEW q, BackAt(c, t, K, q)
    PROVE  \/ BackAt(c, t, K, q)' /\ Further(c)
           \/ /\ Last(c) /\ scst' = save(t, q) /\ UNCHANGED <<writecache, page>>
              /\ \E r \in K : kernel' \in Applied(scst', Files, r) \cup ApplyRaised(scst', Files, r)
<1> DEFINE x == <<"delete", q.name>>
           y == <<"add", q>>
           z == <<"apply", <<>>>>
<1>1. CASE At(c, <<x, y, z>>, t, K, "running")
  <2>1. Head(prog[c]) = x /\ Tail(prog[c]) = <<y, z>>
    BY <1>1, Programs3 DEF At
  <2>2. /\ scst' = delete_by_name(t, q.name) /\ prog'[c] = <<y, z>>
        /\ kernel' \in K /\ stage' = "running" /\ UNCHANGED <<writecache, page>>
    BY <1>1, <2>1, DeleteEffect DEF At
  <2>3. prog'[c] # <<>>
    BY <2>2, Programs2
  <2> QED
    BY <2>2, <2>3 DEF BackAt, At, Further
<1>2. CASE At(c, <<y, z>>, delete_by_name(t, q.name), K, "running")
  <2>1. Head(prog[c]) = y /\ Tail(prog[c]) = <<z>>
    BY <1>2, Programs2 DEF At
  <2>2. /\ scst' = save(t, q) /\ prog'[c] = <<z>>
        /\ kernel' \in K /\ stage' = "running" /\ UNCHANGED <<writecache, page>>
    BY <1>2, <2>1, AddEffect DEF At, save
  <2>3. prog'[c] # <<>>
    BY <2>2, Programs1
  <2> QED
    BY <2>2, <2>3 DEF BackAt, At, Further
<1>3. CASE At(c, <<z>>, save(t, q), K, "running")
  <2>1. Head(prog[c]) = z /\ Tail(prog[c]) = <<>>
    BY <1>3, Programs1 DEF At
  <2>2. /\ prog'[c] = <<>> /\ kernel \in K
        /\ kernel' \in Applied(save(t, q), Files, kernel) \cup ApplyRaised(save(t, q), Files, kernel)
        /\ scst' = save(t, q) /\ UNCHANGED <<writecache, page>>
    BY <1>3, <2>1, ApplyEffect DEF At
  <2> QED
    BY <2>2 DEF Last
<1> QED
  BY <1>1, <1>2, <1>3 DEF BackAt, Back

LEMMA ReportStep ==
    ASSUME Types, NEW c \in Clients, Effect(c), NEW t, NEW K, ReportAt(c, t, K)
    PROVE  \/ ReportAt(c, t, K)' /\ Further(c)
           \/ /\ Last(c) /\ scst' = t /\ kernel' \in K
              /\ writecache' \in Now!CachingOutcomes(t, Files, writecache)
              /\ UNCHANGED page
<1> DEFINE x == <<"reply">>
           w == <<"caching">>
<1>1. CASE At(c, <<x, w>>, t, K, "running")
  <2>1. Head(prog[c]) = x /\ Tail(prog[c]) = <<w>>
    BY <1>1, Programs2 DEF At
  <2>2. /\ stage' = "answered" /\ prog'[c] = <<w>> /\ scst' = t
        /\ kernel' \in K /\ UNCHANGED <<writecache, page>>
    BY <1>1, <2>1, ReplyEffect DEF At
  <2>3. prog'[c] # <<>>
    BY <2>2, Programs1
  <2> QED
    BY <2>2, <2>3 DEF ReportAt, At, Further
<1>2. CASE At(c, <<w>>, t, K, "answered")
  <2>1. Head(prog[c]) = w /\ Tail(prog[c]) = <<>>
    BY <1>2, Programs1 DEF At
  <2> QED
    BY <1>2, <2>1, CachingEffect DEF At, Last
<1> QED
  BY <1>1, <1>2 DEF ReportAt, Report

LEMMA AddStep ==
    ASSUME Types, NEW c \in Clients, Effect(c), NEW s, NEW k, NEW p, AddAt(c, s, k, p)
    PROVE  \/ AddAt(c, s, k, p)' /\ Further(c)
           \/ /\ scst' = Append(s, p) /\ kernel' \in ApplyRaised(Append(s, p), Files, k)
              /\ prog'[c] = Withdraw(p.username, p.filename) /\ stage' = "running"
              /\ UNCHANGED <<writecache, page>>
           \/ /\ Last(c) /\ scst' = Append(s, p) /\ kernel' \in Applied(Append(s, p), Files, k)
              /\ UNCHANGED <<writecache, page>>
<1> DEFINE e == Withdraw(p.username, p.filename)
           y == <<"add", p>>
           z == <<"apply", e>>
<1>1. CASE At(c, <<y, z>>, s, {k}, "running")
  <2>1. Head(prog[c]) = y /\ Tail(prog[c]) = <<z>>
    BY <1>1, Programs2 DEF At
  <2>2. /\ scst' = Append(s, p) /\ prog'[c] = <<z>>
        /\ kernel' = k /\ stage' = "running" /\ UNCHANGED <<writecache, page>>
    BY <1>1, <2>1, AddEffect DEF At
  <2>3. prog'[c] # <<>>
    BY <2>2, Programs1
  <2> QED
    BY <2>2, <2>3 DEF AddAt, At, Further
<1>2. CASE At(c, <<z>>, Append(s, p), {k}, "running")
  <2>1. Head(prog[c]) = z /\ Tail(prog[c]) = <<>>
    BY <1>2, Programs1 DEF At
  <2> QED
    BY <1>2, <2>1, ApplyEffect DEF At, Last
<1> QED
  BY <1>1, <1>2 DEF AddAt

LEMMA WithdrawStep ==
    ASSUME Types, NEW c \in Clients, Effect(c), NEW t, NEW K, NEW u, NEW f, WithdrawAt(c, t, K, u, f)
    PROVE  \/ WithdrawAt(c, t, K, u, f)' /\ Further(c)
           \/ /\ Last(c) /\ scst' = delete_by_username_and_filename(t, u, f)
              /\ \E r \in K : kernel' \in Applied(scst', Files, r) \cup ApplyRaised(scst', Files, r)
              /\ UNCHANGED <<writecache, page>>
<1> DEFINE x == <<"reply">>
           y == <<"withdraw", u, f>>
           z == <<"apply", <<>>>>
<1>1. CASE At(c, <<x, y, z>>, t, K, "running")
  <2>1. Head(prog[c]) = x /\ Tail(prog[c]) = <<y, z>>
    BY <1>1, Programs3 DEF At
  <2>2. /\ stage' = "answered" /\ prog'[c] = <<y, z>> /\ scst' = t
        /\ kernel' \in K /\ UNCHANGED <<writecache, page>>
    BY <1>1, <2>1, ReplyEffect DEF At
  <2>3. prog'[c] # <<>>
    BY <2>2, Programs2
  <2> QED
    BY <2>2, <2>3 DEF WithdrawAt, At, Further
<1>2. CASE At(c, <<y, z>>, t, K, "answered")
  <2>1. Head(prog[c]) = y /\ Tail(prog[c]) = <<z>>
    BY <1>2, Programs2 DEF At
  <2>2. /\ scst' = delete_by_username_and_filename(t, u, f) /\ prog'[c] = <<z>>
        /\ kernel' \in K /\ stage' = "answered" /\ UNCHANGED <<writecache, page>>
    BY <1>2, <2>1, WithdrawEffect DEF At
  <2>3. prog'[c] # <<>>
    BY <2>2, Programs1
  <2> QED
    BY <2>2, <2>3 DEF WithdrawAt, At, Further
<1>3. CASE At(c, <<z>>, delete_by_username_and_filename(t, u, f), K, "answered")
  <2>1. Head(prog[c]) = z /\ Tail(prog[c]) = <<>>
    BY <1>3, Programs1 DEF At
  <2> DEFINE d == delete_by_username_and_filename(t, u, f)
  <2>2. /\ prog'[c] = <<>> /\ kernel \in K
        /\ kernel' \in Applied(d, Files, kernel) \cup ApplyRaised(d, Files, kernel)
        /\ scst' = d /\ UNCHANGED <<writecache, page>>
    BY <1>3, <2>1, ApplyEffect DEF At
  <2> QED
    BY <2>2 DEF Last
<1> QED
  BY <1>1, <1>2, <1>3 DEF WithdrawAt, Withdraw

LEMMA ExpelStep ==
    ASSUME Types, NEW c \in Clients, Effect(c), NEW s, NEW k, NEW u, NEW f, ExpelAt(c, s, k, u, f)
    PROVE  \/ ExpelAt(c, s, k, u, f)' /\ Further(c)
           \/ /\ Last(c) /\ scst' = delete_by_username_and_filename(s, u, f)
              /\ kernel' \in Applied(scst', Files, k) \cup ApplyRaised(scst', Files, k)
              /\ UNCHANGED <<writecache, page>>
<1> DEFINE y == <<"withdraw", u, f>>
           z == <<"apply", <<>>>>
<1>1. CASE At(c, <<y, z>>, s, {k}, "running")
  <2>1. Head(prog[c]) = y /\ Tail(prog[c]) = <<z>>
    BY <1>1, Programs2 DEF At
  <2>2. /\ scst' = delete_by_username_and_filename(s, u, f) /\ prog'[c] = <<z>>
        /\ kernel' = k /\ stage' = "running" /\ UNCHANGED <<writecache, page>>
    BY <1>1, <2>1, WithdrawEffect DEF At
  <2>3. prog'[c] # <<>>
    BY <2>2, Programs1
  <2> QED
    BY <2>2, <2>3 DEF ExpelAt, At, Further
<1>2. CASE At(c, <<z>>, delete_by_username_and_filename(s, u, f), {k}, "running")
  <2>1. Head(prog[c]) = z /\ Tail(prog[c]) = <<>>
    BY <1>2, Programs1 DEF At
  <2> QED
    BY <1>2, <2>1, ApplyEffect DEF At, Last
<1> QED
  BY <1>1, <1>2 DEF ExpelAt

-----------------------------------------------------------------------------
(***************************************************************************)
(* The stores a handler passes through                                     *)
(***************************************************************************)

\* The pattern a form describes.
LEMMA FormPattern ==
    ASSUME NEW n \in Names, NEW l \in Luns, NEW fl \in Flags
    PROVE  /\ Now!Pattern(n, l, fl) \in AccessPattern
           /\ Now!Pattern(n, l, fl).name = n /\ Now!Pattern(n, l, fl).filename = NoFile
BY RequestsAssumption DEF Now!Pattern, AccessPattern

\* A section named by a button.
LEMMA PageSections ==
    ASSUME NEW pg \in Now!Page
    PROVE  /\ \A name \in pg.unbound : name[2] \in AccessPattern /\ name[2].filename = NoFile
           /\ \A name \in pg.unbind : name[2] \in AccessPattern
           /\ \A name \in pg.credentials : name[2] \in AuthCredential
           /\ pg.volumes \subseteq Files
<1>1. Now!AccessPattern = AccessPattern /\ Now!AuthCredential = AuthCredential
  BY DEF Now!AccessPattern, AccessPattern, Now!AuthCredential, AuthCredential
<1> QED
  BY <1>1 DEF Now!Page, Now!UnboundPattern

\* A page shows sections of the store.
LEMMA RenderedIsPage ==
    ASSUME NEW s \in Seq(Section)
    PROVE  Now!Rendered(s) \in Now!Page
<1>1. Now!AccessPattern = AccessPattern /\ Now!AuthCredential = AuthCredential
  BY DEF Now!AccessPattern, AccessPattern, Now!AuthCredential, AuthCredential
<1>2. \A i \in DOMAIN s : i \in Nat /\ s[i] \in Section
  OBVIOUS
<1>3. \A i \in Now!Patterns(s) : Now!SectionName(s, i) \in Nat \X AccessPattern
  BY <1>2 DEF Now!Patterns, Now!SectionName, Section, AuthCredential
<1>4. \A i \in Now!BoundTo(s, NoFile) : Now!SectionName(s, i) \in Nat \X Now!UnboundPattern
  BY <1>1, <1>3 DEF Now!BoundTo, Now!SectionName, Now!UnboundPattern
<1>5. \A i \in Now!Credentials(s) : Now!SectionName(s, i) \in Nat \X AuthCredential
  BY <1>2 DEF Now!Credentials, Now!SectionName, Section, AccessPattern
<1> QED
  BY <1>1, <1>3, <1>4, <1>5 DEF Now!Rendered, Now!FilledUp, Now!Page, Now!listed

\* caching.apply sets each array's write cache on or off, or leaves it.
LEMMA CachingIsSetting ==
    ASSUME NEW s, NEW w \in [Arrays -> BOOLEAN], NEW v \in Now!CachingOutcomes(s, Files, w)
    PROVE  v \in [Arrays -> BOOLEAN]
<1>1. Now!CachingApplied(s, Files) \in [Arrays -> BOOLEAN]
  BY DEF Now!CachingApplied
<1> QED
  BY <1>1 DEF Now!CachingOutcomes

\* Saving a pattern, and taking it back.
LEMMA PatternStores ==
    ASSUME NEW s, Well(s), NEW p \in AccessPattern
    PROVE  /\ Well(delete_by_name(s, p.name)) /\ Near(s, delete_by_name(s, p.name))
           /\ /\ p.filename # NoFile =>
                    \A i \in Patterns(s) :
                        s[i].name # p.name /\ s[i].filename = p.filename => s[i].lun # p.lun
              => Well(save(s, p))
           /\ Near(s, save(s, p))
<1>1. p.name \in Names /\ s \in Seq(Section) /\ DistinctNames(s) /\ DistinctLuns(s)
  BY DEF AccessPattern, Well
<1>2. Well(delete_by_name(s, p.name))
  BY <1>1, DeleteByName DEF Well
<1>3. Near(s, delete_by_name(s, p.name))
  BY <1>1, DeleteAgain DEF Near
<1>4. Near(s, save(s, p))
  BY <1>1, SaveNear DEF Near
<1>5. ASSUME p.filename # NoFile =>
                \A i \in Patterns(s) :
                    s[i].name # p.name /\ s[i].filename = p.filename => s[i].lun # p.lun
      PROVE  Well(save(s, p))
  BY <1>1, <1>5, SaveDistinct DEF Well
<1> QED
  BY <1>2, <1>3, <1>4, <1>5

LEMMA BackStores ==
    ASSUME NEW s, Well(s), NEW p \in AccessPattern, NEW q \in AccessPattern,
           q.name = p.name, q.filename = NoFile, Well(save(s, p))
    PROVE  /\ Well(delete_by_name(save(s, p), q.name)) /\ Near(s, delete_by_name(save(s, p), q.name))
           /\ Well(save(save(s, p), q)) /\ Near(s, save(save(s, p), q))
<1> DEFINE t == save(s, p)
<1>1. p.name \in Names /\ s \in Seq(Section) /\ t \in Seq(Section)
  BY DEF AccessPattern, Well
<1>2. delete_by_name(t, p.name) = delete_by_name(s, p.name)
  BY <1>1, SaveNear
<1> HIDE DEF t
<1>3. delete_by_name(delete_by_name(t, p.name), p.name) = delete_by_name(s, p.name)
  BY <1>1, <1>2, DeleteAgain
<1>4. delete_by_name(save(t, q), p.name) = delete_by_name(s, p.name)
  BY <1>1, <1>2, SaveNear
<1>5. Near(s, delete_by_name(t, p.name)) /\ Near(s, save(t, q))
  BY <1>1, <1>3, <1>4 DEF Near
<1>6. Well(t)
  BY DEF t
<1>7. Well(delete_by_name(t, q.name)) /\ Well(save(t, q))
  BY <1>6, PatternStores
<1> QED
  BY <1>5, <1>7 DEF t

\* Adding a credential, deleting credentials.
LEMMA CredentialStores ==
    ASSUME NEW s, Well(s), NEW u \in Users, NEW f \in Files
    PROVE  LET t == Append(s, Credential(u, f))
               d(x) == delete_by_username_and_filename(x, u, f)
           IN  /\ Well(t) /\ Near(s, t)
               /\ Well(d(t)) /\ Near(s, d(t))
               /\ Well(d(s)) /\ Near(s, d(s))
<1> DEFINE p == Credential(u, f)
           t == Append(s, p)
           d(x) == delete_by_username_and_filename(x, u, f)
<1>1. p \in Section /\ p.type # "access-pattern"
  BY DEF Credential, Section, AuthCredential
<1>2. d(t) = d(s)
  BY CredentialAppended DEF Credential, Well
<1> HIDE DEF p
<1>3. Well(t)
  BY <1>1, AppendDistinct DEF Well
<1> HIDE DEF t
<1>4. d(d(s)) = d(s) /\ d(d(t)) = d(t)
  BY <1>3, CredentialAgain DEF Well
<1>5. Well(d(s)) /\ Well(d(t))
  BY <1>3, CredentialDistinct DEF Well
<1> HIDE DEF d
<1>6. Near(s, t) /\ Near(s, d(t)) /\ Near(s, d(s))
  BY <1>2, <1>4 DEF Near, d
<1> QED
  BY <1>3, <1>5, <1>6 DEF t, d, p

-----------------------------------------------------------------------------
(***************************************************************************)
(* Module Iscsi, as seen from between the requests                         *)
(***************************************************************************)

\* It computes from the store between the requests what the code computes
\* from the store as it is.
LEMMA SameKept ==
    ASSUME NEW s, NEW K
    PROVE  Atomic!Kept(s, K) = Kept(s, K)
<1>1. ASSUME NEW S PROVE Atomic!Cardinality(S) = Cardinality(S)
  BY DEF Atomic!Cardinality, Cardinality
<1>2. ASSUME NEW k PROVE Atomic!Nth(K, k) = Nth(K, k)
  BY <1>1 DEF Atomic!Nth, Nth
<1> QED
  BY <1>1, <1>2 DEF Atomic!Kept, Kept

LEMMA SameStore ==
    ASSUME NEW s
    PROVE  /\ Atomic!Patterns(s) = Patterns(s) /\ Atomic!Credentials(s) = Credentials(s)
           /\ \A f : Atomic!BoundTo(s, f) = BoundTo(s, f)
           /\ \A name : Atomic!Found(s, name) = Found(s, name)
           /\ \A n : Atomic!delete_by_name(s, n) = delete_by_name(s, n)
           /\ \A p : Atomic!save(s, p) = save(s, p)
           /\ \A u, f : Atomic!delete_by_username_and_filename(s, u, f)
                        = delete_by_username_and_filename(s, u, f)
           /\ Atomic!Rendered(s) = Now!Rendered(s)
<1>1. Atomic!Patterns(s) = Patterns(s) /\ Atomic!Credentials(s) = Credentials(s)
  BY DEF Atomic!Patterns, Patterns, Atomic!Credentials, Credentials
<1>2. \A K : Atomic!Kept(s, K) = Kept(s, K)
  BY SameKept
<1>3. \A f : Atomic!BoundTo(s, f) = BoundTo(s, f)
  BY <1>1 DEF Atomic!BoundTo, BoundTo
<1>4. \A name : Atomic!Found(s, name) = Found(s, name)
  BY DEF Atomic!Found, Found
<1>5. \A n : Atomic!delete_by_name(s, n) = delete_by_name(s, n)
  BY <1>1, <1>2 DEF Atomic!delete_by_name, delete_by_name
<1>6. \A p : Atomic!save(s, p) = save(s, p)
  BY <1>5 DEF Atomic!save, save
<1>7. \A u, f : Atomic!delete_by_username_and_filename(s, u, f) = delete_by_username_and_filename(s, u, f)
  BY <1>1, <1>2 DEF Atomic!delete_by_username_and_filename, delete_by_username_and_filename
<1>8. Atomic!Rendered(s) = Now!Rendered(s)
  BY DEF Atomic!Rendered, Now!Rendered, Atomic!BoundTo, Now!BoundTo, Atomic!SectionName, Now!SectionName,
         Atomic!Patterns, Now!Patterns, Atomic!is_binded, Now!is_binded, Atomic!Unbindable, Now!Unbindable,
         Atomic!FilledUp, Now!FilledUp, Atomic!Credentials, Now!Credentials, Atomic!listed, Now!listed,
         Atomic!Deletable, Now!Deletable
<1> QED
  BY <1>1, <1>3, <1>4, <1>5, <1>6, <1>7, <1>8

LEMMA SameKernel ==
    ASSUME NEW s, NEW k
    PROVE  /\ Atomic!Applied(s, Files, k) = Applied(s, Files, k)
           /\ Atomic!ApplyRaised(s, Files, k) = ApplyRaised(s, Files, k)
<1>1. /\ Atomic!Exportable(s, Files) = Exportable(s, Files)
      /\ Atomic!DumpFails(s, Files) = DumpFails(s, Files)
  BY DEF Atomic!Exportable, Exportable, Atomic!DumpFails, DumpFails, Atomic!Patterns, Patterns,
         Atomic!SameTarget, SameTarget, Atomic!is_binded, is_binded
<1>2. Atomic!dump(s, Files) = dump(s, Files)
  BY DEF Atomic!Exportable, Exportable, Atomic!dump, dump, Atomic!Patterns, Patterns,
         Atomic!Credentials, Credentials, Atomic!TargetTable, TargetTable,
         Atomic!SameTarget, SameTarget, Atomic!DeviceOf, DeviceOf, Atomic!is_binded, is_binded
<1>3. Atomic!Applied(s, Files, k) = Applied(s, Files, k)
  BY <1>1, <1>2 DEF Atomic!Applied, Applied
<1>4. Atomic!ApplyRaised(s, Files, k) = ApplyRaised(s, Files, k)
  BY <1>1, <1>2 DEF Atomic!ApplyRaised, ApplyRaised
<1> QED
  BY <1>3, <1>4

LEMMA SameOthers ==
    /\ \A n, l, fl : Atomic!Pattern(n, l, fl) = Now!Pattern(n, l, fl)
    /\ \A p : Atomic!Unbound(p) = Unbound(p)
    /\ \A s, w : Atomic!CachingOutcomes(s, Files, w) = Now!CachingOutcomes(s, Files, w)
    /\ Atomic!listed = Files
<1>1. \A n, l, fl : Atomic!Pattern(n, l, fl) = Now!Pattern(n, l, fl)
  BY DEF Atomic!Pattern, Now!Pattern
<1>2. \A p : Atomic!Unbound(p) = Unbound(p)
  BY DEF Atomic!Unbound, Unbound
<1>3. \A s, w : Atomic!CachingOutcomes(s, Files, w) = Now!CachingOutcomes(s, Files, w)
  BY DEF Atomic!CachingOutcomes, Now!CachingOutcomes, Atomic!CachingApplied, Now!CachingApplied,
         Atomic!WriteThroughFound, Now!WriteThroughFound, Atomic!BoundTo, Now!BoundTo,
         Atomic!Patterns, Now!Patterns
<1>4. Atomic!listed = Files
  BY RequestsAssumption DEF Atomic!listed
<1> QED
  BY <1>1, <1>2, <1>3, <1>4

\* No initiator has a session, so no target is removed.
LEMMA NothingDetached ==
    ASSUME NEW k \in Kernel, NEW T, T = {}
    PROVE  Atomic!rem_target(k, T) = k
<1>1. k = [luns |-> k.luns, users |-> k.users]
  BY DEF Kernel
<1>2. {l \in k.luns : l.iqn \notin T} = k.luns /\ {u \in k.users : u[1] \notin T} = k.users
  OBVIOUS
<1> QED
  BY <1>1, <1>2 DEF Atomic!rem_target

\* No pattern is unknown.
LEMMA NothingUnknown ==
    ASSUME NEW s \in Seq(Section)
    PROVE  Atomic!Unknown(s) = {} /\ Atomic!UnknownUnbound(s) = s
<1>1. \A i \in Patterns(s) : s[i].filename \in Files \cup {NoFile}
  BY DEF Patterns, Section, AccessPattern, AuthCredential
<1>2. Atomic!Unknown(s) = {}
  BY <1>1, SameStore, SameOthers DEF Atomic!Unknown
<1>3. \A K : Atomic!Kept(s, K) = Kept(s, K)
  BY SameKept
<1>4. Kept(s, {}) = <<>>
  <2>1. Kept(s, {}) \in Seq(Section) /\ Len(Kept(s, {})) = Cardinality({})
    BY KeptProperty
  <2> QED
    BY <2>1, FS_EmptySet, EmptySeq
<1>5. [k \in DOMAIN <<>> |-> Atomic!Unbound(<<>>[k])] = <<>>
  OBVIOUS
<1>6. Kept(s, DOMAIN s \ {}) = s
  <2>1. DOMAIN s \ {} = DOMAIN s
    OBVIOUS
  <2> QED
    BY <2>1, KeptAll
<1>7. Atomic!UnknownUnbound(s) = s \o <<>>
  BY <1>2, <1>3, <1>4, <1>5, <1>6 DEF Atomic!UnknownUnbound
<1> QED
  BY <1>2, <1>7, ConcatEmptySeq

\* A step between two commits of a request does not show.
LEMMA BetweenStays ==
    ASSUME before # NoRequest, before' = before
    PROVE  UNCHANGED Atomic!vars
<1>1. Between' = Between
  BY DEF Between
<1> QED
  BY <1>1 DEF Atomic!vars

\* The last step of a request takes the state before it to the one after.
LEMMA BetweenEnds ==
    ASSUME before # NoRequest, before' = NoRequest
    PROVE  /\ Between.scst = before.scst /\ Between.kernel = before.kernel
           /\ Between.writecache = before.writecache /\ Between.page = before.page
           /\ (Between.scst)' = scst' /\ (Between.kernel)' = kernel'
           /\ (Between.writecache)' = writecache' /\ (Between.page)' = page'
<1>1. Between = before /\ Between' = Snapshot'
  BY DEF Between
<1> QED
  BY <1>1 DEF Snapshot

\* Outside requests it is the state itself.
LEMMA BetweenIdle ==
    ASSUME before = NoRequest, before' = NoRequest
    PROVE  /\ Between.scst = scst /\ Between.kernel = kernel
           /\ Between.writecache = writecache /\ Between.page = page
           /\ (Between.scst)' = scst' /\ (Between.kernel)' = kernel'
           /\ (Between.writecache)' = writecache' /\ (Between.page)' = page'
<1>1. Between = Snapshot /\ Between' = Snapshot'
  BY DEF Between
<1> QED
  BY <1>1 DEF Snapshot

\* A snapshot has the components of a state.
LEMMA SnapshotType ==
    ASSUME NEW b \in Snapshots
    PROVE  /\ b.scst \in Seq(Section) /\ b.kernel \in Kernel /\ b.writecache \in [Arrays -> BOOLEAN]
           /\ b.page \in [Clients -> Now!Page \cup {NoPage}]
BY DEF Snapshots

\* A request goes on at its next position.
LEMMA Advance ==
    ASSUME QInv, before # NoRequest, NEW c \in Clients, Handling(c), Effect(c), Further(c),
           before' = before => Position(c)',
           Well(scst'), Near(before.scst, scst'), kernel' \in Kernel
    PROVE  QInv' /\ UNCHANGED Atomic!vars
<1>1. /\ serving' = c /\ plugin' = plugin /\ before' = before
      /\ prog' = [prog EXCEPT ![c] = prog'[c]]
  BY EffectFrame DEF QInv, Further
<1>2. Types'
  BY <1>1 DEF QInv, Types, Well, Further
<1>3. \A d \in Clients \ {c} : prog'[d] = <<>>
  BY <1>1 DEF Handling, QInv, Types
<1>4. Handling(c)'
  BY <1>1, <1>3 DEF Handling, Further, Well
<1>5. QInv'
  BY <1>1, <1>2, <1>4 DEF QInv, Well
<1> QED
  BY <1>1, <1>5, BetweenStays

\* A request comes to its end.
LEMMA Finish ==
    ASSUME QInv, before # NoRequest, NEW c \in Clients, Handling(c), Effect(c), Last(c),
           Well(scst'), kernel' \in Kernel, writecache' \in [Arrays -> BOOLEAN],
           page' \in [Clients -> Now!Page \cup {NoPage}]
    PROVE  QInv' /\ before' = NoRequest
<1>1. /\ plugin' = plugin /\ before' = NoRequest /\ prog' = [prog EXCEPT ![c] = <<>>]
  BY EffectFrame DEF QInv, Last
<1>2. Types'
  BY <1>1 DEF QInv, Types, Well
<1>3. \A d \in Clients : prog'[d] = <<>>
  BY <1>1 DEF Handling, QInv, Types
<1> QED
  BY <1>1, <1>2, <1>3 DEF QInv, Well

-----------------------------------------------------------------------------
(***************************************************************************)
(* The effects of each handler keep the invariant, and the last one makes  *)
(* the request the step module Iscsi takes it for.                         *)
(***************************************************************************)

\* What is known while the handler of c is at work.
LEMMA Working ==
    ASSUME QInv, before # NoRequest, NEW c \in Clients, Handling(c)
    PROVE  /\ Types /\ Well(before.scst) /\ before.scst \in Seq(Section) /\ before.kernel \in Kernel
           /\ before.writecache \in [Arrays -> BOOLEAN] /\ writecache = before.writecache
           /\ before.page \in [Clients -> Now!Page \cup {NoPage}]
           /\ before.page[c] # NoPage => before.page[c] \in Now!Page
           /\ page = [before.page EXCEPT ![c] = NoPage]
           /\ page \in [Clients -> Now!Page \cup {NoPage}]
<1>1. before \in Snapshots
  BY DEF QInv, Types
<1> QED
  BY <1>1, SnapshotType DEF QInv, Types, Handling

\* A page is loaded.
LEMMA LoadCase ==
    ASSUME QInv, before # NoRequest, NEW c \in Clients, Handling(c), Effect(c), Loading(c)
    PROVE  QInv' /\ [Atomic!Next]_(Atomic!vars)
<1>1. PICK s, k : s = before.scst /\ k = before.kernel
  OBVIOUS
<1>2. /\ Types /\ Well(s) /\ s \in Seq(Section) /\ k \in Kernel
      /\ writecache \in [Arrays -> BOOLEAN] /\ writecache = before.writecache
      /\ before.page \in [Clients -> Now!Page \cup {NoPage}]
      /\ page = [before.page EXCEPT ![c] = NoPage]
      /\ page \in [Clients -> Now!Page \cup {NoPage}]
  BY <1>1, Working
<1>3. LoadAt(c, s, k)
  BY <1>1 DEF Loading
<1>4. Applied(s, Files, k) \in SUBSET Kernel /\ ApplyRaised(s, Files, k) \in SUBSET Kernel
  BY <1>2, ApplyType
<1>5. CASE LoadAt(c, s, k)' /\ Further(c)
  <2>1. scst' = s /\ kernel' \in Kernel
    BY <1>2, <1>4, <1>5 DEF LoadAt, At
  <2>2. before' = before => Position(c)'
    BY <1>1, <1>5 DEF Position, Loading
  <2>3. Near(before.scst, scst')
    BY <1>1, <2>1 DEF Near
  <2> QED
    BY <1>2, <1>5, <2>1, <2>2, <2>3, Advance
<1>6. CASE /\ Last(c) /\ scst' = s /\ UNCHANGED writecache
           /\ \/ kernel' \in Applied(s, Files, k) /\ page' = [page EXCEPT ![c] = Now!Rendered(s)]
              \/ kernel' \in ApplyRaised(s, Files, k) /\ UNCHANGED page
  <2>1. page' \in [Clients -> Now!Page \cup {NoPage}]
    BY <1>2, <1>6, RenderedIsPage
  <2>2. QInv' /\ before' = NoRequest
    BY <1>2, <1>4, <1>6, <2>1, Finish
  <2>3. /\ Between.scst = s /\ Between.kernel = k
        /\ Between.writecache = before.writecache /\ Between.page = before.page
        /\ (Between.scst)' = scst' /\ (Between.kernel)' = kernel'
        /\ (Between.writecache)' = writecache' /\ (Between.page)' = page'
    BY <1>1, <2>2, BetweenEnds
  <2>4. \/ kernel' \in Applied(s, Files, k) /\ page' = [before.page EXCEPT ![c] = Now!Rendered(s)]
        \/ kernel' \in ApplyRaised(s, Files, k) /\ page' = [before.page EXCEPT ![c] = NoPage]
    BY <1>2, <1>6
  <2>5. Atomic!rem_target(k, UNION {Atomic!Detached(s[i], Files, {}) : i \in Atomic!Unknown(s)}) = k
    <3>1. UNION {Atomic!Detached(s[i], Files, {}) : i \in Atomic!Unknown(s)} = {}
      BY <1>2, NothingUnknown
    <3> QED
      BY <1>2, <3>1, NothingDetached
  <2>6. /\ Atomic!UnknownUnbound(s) = s /\ Atomic!Rendered(s) = Now!Rendered(s)
        /\ Atomic!Applied(s, Files, k) = Applied(s, Files, k)
        /\ Atomic!ApplyRaised(s, Files, k) = ApplyRaised(s, Files, k)
    BY <1>2, NothingUnknown, SameStore, SameKernel
  <2>7. Atomic!PageLoad(c)
    BY <1>2, <1>6, <2>3, <2>4, <2>5, <2>6 DEF Atomic!PageLoad
  <2> QED
    BY <2>2, <2>7 DEF Atomic!Next, Atomic!Request
<1> QED
  BY <1>2, <1>3, <1>5, <1>6, LoadStep

\* The end of a request that came from a button.
LEMMA Submit ==
    ASSUME QInv, before # NoRequest, NEW c \in Clients, Handling(c), Effect(c), Last(c),
           before.page[c] # NoPage, UNCHANGED page,
           Well(scst'), kernel' \in Kernel, writecache' \in [Arrays -> BOOLEAN]
    PROVE  /\ QInv' /\ Atomic!Shown(c) /\ Atomic!Submitted(c)
           /\ Between.scst = before.scst /\ Between.kernel = before.kernel
           /\ Between.writecache = writecache /\ Between.page = before.page
           /\ (Between.scst)' = scst' /\ (Between.kernel)' = kernel' /\ (Between.writecache)' = writecache'
<1>1. page' = [before.page EXCEPT ![c] = NoPage] /\ page' \in [Clients -> Now!Page \cup {NoPage}]
      /\ writecache = before.writecache
  BY Working
<1>2. QInv' /\ before' = NoRequest
  BY <1>1, Finish
<1>3. /\ Between.scst = before.scst /\ Between.kernel = before.kernel
      /\ Between.writecache = before.writecache /\ Between.page = before.page
      /\ (Between.scst)' = scst' /\ (Between.kernel)' = kernel'
      /\ (Between.writecache)' = writecache' /\ (Between.page)' = page'
  BY <1>2, BetweenEnds
<1> QED
  BY <1>1, <1>2, <1>3 DEF Atomic!Shown, Atomic!Submitted

\* A pattern is created.
LEMMA CreateCase ==
    ASSUME QInv, before # NoRequest, NEW c \in Clients, Handling(c), Effect(c),
           before.page[c] # NoPage, Creating(c)
    PROVE  QInv' /\ [Atomic!Next]_(Atomic!vars)
<1>1. PICK s, k : s = before.scst /\ k = before.kernel
  OBVIOUS
<1>2. Types /\ Well(s) /\ s \in Seq(Section) /\ k \in Kernel /\ writecache \in [Arrays -> BOOLEAN]
  BY <1>1, Working
<1>3. PICK n \in Names, l \in Luns, fl \in Flags :
          Absent(s, n) /\ NewAt(c, s, k, Now!Pattern(n, l, fl))
  BY <1>1 DEF Creating
<1> DEFINE p == Now!Pattern(n, l, fl)
<1>4. p \in AccessPattern /\ p.name = n /\ p.filename = NoFile
  BY FormPattern
<1> HIDE DEF p
<1>5. Last(c) /\ scst' = Append(s, p) /\ kernel' = k /\ UNCHANGED <<writecache, page>>
  BY <1>2, <1>3, NewStep DEF p
<1>6. Well(scst')
  BY <1>2, <1>3, <1>4, <1>5, AppendDistinct DEF Well, Absent, Section
<1>7. /\ QInv' /\ Atomic!Shown(c) /\ Atomic!Submitted(c)
      /\ Between.scst = s /\ Between.kernel = k /\ Between.writecache = writecache
      /\ (Between.scst)' = scst' /\ (Between.kernel)' = kernel' /\ (Between.writecache)' = writecache'
  BY <1>1, <1>2, <1>5, <1>6, Submit
<1>8. ~Atomic!NameExists(n)
  BY <1>3, <1>7, SameStore DEF Atomic!NameExists, Absent
<1>9. Atomic!Pattern(n, l, fl) = p
  BY SameOthers DEF p
<1>10. Atomic!scst_access_pattern_new(c, n, l, fl)
  BY <1>5, <1>7, <1>8, <1>9 DEF Atomic!scst_access_pattern_new
<1> QED
  BY <1>7, <1>10 DEF Atomic!Next, Atomic!Request

\* A pattern is deleted.
LEMMA DeleteCase ==
    ASSUME QInv, before # NoRequest, NEW c \in Clients, Handling(c), Effect(c),
           before.page[c] # NoPage, Deleting(c)
    PROVE  QInv' /\ [Atomic!Next]_(Atomic!vars)
<1>1. PICK s, k : s = before.scst /\ k = before.kernel
  OBVIOUS
<1>2. /\ Types /\ Well(s) /\ s \in Seq(Section) /\ k \in Kernel /\ writecache \in [Arrays -> BOOLEAN]
      /\ before.page[c] \in Now!Page
  BY <1>1, Working
<1>3. PICK name \in before.page[c].unbound : Found(s, name) /\ DeleteAt(c, s, k, name[2].name)
  BY <1>1 DEF Deleting
<1>4. name[2] \in AccessPattern
  BY <1>2, PageSections
<1>5. Last(c) /\ scst' = delete_by_name(s, name[2].name) /\ kernel' = k /\ UNCHANGED <<writecache, page>>
  BY <1>2, <1>3, DeleteStep
<1>6. Well(scst')
  BY <1>2, <1>4, <1>5, PatternStores
<1>7. /\ QInv' /\ Atomic!Shown(c) /\ Atomic!Submitted(c)
      /\ Between.scst = s /\ Between.kernel = k /\ Between.writecache = writecache /\ Between.page = before.page
      /\ (Between.scst)' = scst' /\ (Between.kernel)' = kernel' /\ (Between.writecache)' = writecache'
  BY <1>1, <1>2, <1>5, <1>6, Submit
<1>8. Atomic!Found(s, name) /\ Atomic!delete_by_name(s, name[2].name) = delete_by_name(s, name[2].name)
  BY <1>3, SameStore
<1>9. Atomic!scst_access_pattern_delete(c, name)
  BY <1>5, <1>7, <1>8 DEF Atomic!scst_access_pattern_delete
<1> QED
  BY <1>7, <1>9 DEF Atomic!Next, Atomic!Request

\* A pattern is edited.
LEMMA EditCase ==
    ASSUME QInv, before # NoRequest, NEW c \in Clients, Handling(c), Effect(c),
           before.page[c] # NoPage, Editing(c)
    PROVE  QInv' /\ [Atomic!Next]_(Atomic!vars)
<1>1. PICK s, k : s = before.scst /\ k = before.kernel
  OBVIOUS
<1>2. /\ Types /\ Well(s) /\ s \in Seq(Section) /\ k \in Kernel /\ writecache \in [Arrays -> BOOLEAN]
      /\ before.page[c] \in Now!Page
  BY <1>1, Working
<1>3. PICK name \in before.page[c].unbound, n \in Names, l \in Luns, fl \in Flags :
          /\ Found(s, name) /\ (n = name[2].name \/ Absent(s, n))
          /\ EditAt(c, s, k, Now!Pattern(n, l, fl))
  BY <1>1 DEF Editing
<1> DEFINE p == Now!Pattern(n, l, fl)
<1>4. p \in AccessPattern /\ p.name = n /\ p.filename = NoFile
  BY FormPattern
<1>5. Well(delete_by_name(s, p.name)) /\ Near(s, delete_by_name(s, p.name)) /\ Well(save(s, p))
  BY <1>2, <1>4, PatternStores
<1>6. Near(s, s)
  BY DEF Near
<1>7. CASE EditAt(c, s, k, p)' /\ Further(c)
  <2>1. Well(scst') /\ Near(s, scst') /\ kernel' \in Kernel
    BY <1>2, <1>5, <1>6, <1>7 DEF EditAt, At
  <2>2. before' = before => Position(c)'
    <3>1. before' = before => Editing(c)'
      BY <1>1, <1>3, <1>7 DEF Editing
    <3> QED
      BY <3>1 DEF Position
  <2> QED
    BY <1>1, <1>7, <2>1, <2>2, Advance
<1>8. CASE Last(c) /\ scst' = save(s, p) /\ kernel' = k /\ UNCHANGED <<writecache, page>>
  <2>1. /\ QInv' /\ Atomic!Shown(c) /\ Atomic!Submitted(c)
        /\ Between.scst = s /\ Between.kernel = k /\ Between.writecache = writecache /\ Between.page = before.page
        /\ (Between.scst)' = scst' /\ (Between.kernel)' = kernel' /\ (Between.writecache)' = writecache'
    BY <1>1, <1>2, <1>5, <1>8, Submit
  <2>2. Atomic!Found(s, name) /\ Atomic!save(s, p) = save(s, p)
    BY <1>3, SameStore
  <2>3. n = name[2].name \/ ~Atomic!NameExists(n)
    BY <1>3, <2>1, SameStore DEF Atomic!NameExists, Absent
  <2>4. Atomic!Pattern(n, l, fl) = p
    BY SameOthers
  <2> HIDE DEF p
  <2>5. Atomic!scst_access_pattern_edit(c, name, n, l, fl)
    BY <1>8, <2>1, <2>2, <2>3, <2>4 DEF Atomic!scst_access_pattern_edit
  <2> QED
    BY <2>1, <2>5 DEF Atomic!Next, Atomic!Request
<1> QED
  BY <1>2, <1>3, <1>7, <1>8, EditStep

\* A pattern is bound, or its binding taken back.
LEMMA BindCase ==
    ASSUME QInv, before # NoRequest, NEW c \in Clients, Handling(c), Effect(c),
           before.page[c] # NoPage, Binding(c)
    PROVE  QInv' /\ [Atomic!Next]_(Atomic!vars)
<1>1. PICK s, k : s = before.scst /\ k = before.kernel
  OBVIOUS
<1>2. /\ Types /\ Well(s) /\ s \in Seq(Section) /\ k \in Kernel /\ writecache \in [Arrays -> BOOLEAN]
      /\ before.page[c] \in Now!Page
  BY <1>1, Working
<1>3. PICK name \in before.page[c].unbound, f \in before.page[c].volumes :
          LET p == BoundPattern(name, f)
          IN  /\ Found(s, name) /\ Free(s, f, name[2].lun)
              /\ name[2].lun # 0 => ~Free(s, f, 0)
              /\ \/ SaveAt(c, s, k, p, Back(Unbound(p)))
                 \/ BackAt(c, save(s, p), ApplyRaised(save(s, p), Files, k), Unbound(p))
  BY <1>1 DEF Binding
<1> DEFINE p == BoundPattern(name, f)
           q == Unbound(p)
           t == save(s, p)
           K == ApplyRaised(t, Files, k)
<1>4. name[2] \in AccessPattern /\ f \in Files
  BY <1>2, PageSections
<1>5. /\ p \in AccessPattern /\ p.filename = f /\ p.lun = name[2].lun
      /\ q \in AccessPattern /\ q.name = p.name /\ q.filename = NoFile
  BY <1>4 DEF AccessPattern, BoundPattern, Unbound
<1>6. SaveAt(c, s, k, p, Back(q)) \/ BackAt(c, t, K, q)
  BY <1>3
<1> HIDE DEF p, q, t, K
<1>7. \A i \in Patterns(s) : s[i].filename = p.filename => s[i].lun # p.lun
  BY <1>3, <1>5 DEF Free, BoundTo
<1>8. /\ Well(delete_by_name(s, p.name)) /\ Near(s, delete_by_name(s, p.name))
      /\ Well(t) /\ Near(s, t) /\ Near(s, s)
  BY <1>2, <1>5, <1>7, PatternStores DEF t, Near
<1>9. /\ Well(delete_by_name(t, q.name)) /\ Near(s, delete_by_name(t, q.name))
      /\ Well(save(t, q)) /\ Near(s, save(t, q))
  BY <1>2, <1>5, <1>8, BackStores DEF t
<1>10. Applied(t, Files, k) \in SUBSET Kernel /\ K \in SUBSET Kernel
  BY <1>2, <1>8, ApplyType DEF Well, K
\* The request goes on.
<1>11. ASSUME Further(c), SaveAt(c, s, k, p, Back(q))' \/ BackAt(c, t, K, q)'
       PROVE  QInv' /\ [Atomic!Next]_(Atomic!vars)
  <2>1. Well(scst') /\ Near(s, scst') /\ kernel' \in Kernel
    BY <1>2, <1>8, <1>9, <1>10, <1>11 DEF SaveAt, BackAt, At, t
  <2>2. before' = before => Position(c)'
    <3>1. before' = before => Binding(c)'
      BY <1>1, <1>3, <1>11 DEF Binding, p, q, t, K
    <3> QED
      BY <3>1 DEF Position
  <2> QED
    BY <1>1, <1>11, <2>1, <2>2, Advance
\* It is over.
<1>12. ASSUME Last(c), UNCHANGED page,
              \/ /\ scst' = t /\ kernel' \in Applied(t, Files, k)
                 /\ writecache' \in Now!CachingOutcomes(t, Files, writecache)
              \/ /\ scst' = save(t, q) /\ UNCHANGED writecache
                 /\ \E r \in K : kernel' \in Applied(scst', Files, r) \cup ApplyRaised(scst', Files, r)
       PROVE  QInv' /\ [Atomic!Next]_(Atomic!vars)
  <2>1. Well(scst')
    BY <1>8, <1>9, <1>12
  <2>2. kernel' \in Kernel
    BY <1>9, <1>10, <1>12, ApplyType DEF Well
  <2>3. writecache' \in [Arrays -> BOOLEAN]
    BY <1>2, <1>12, CachingIsSetting
  <2>4. /\ QInv' /\ Atomic!Shown(c) /\ Atomic!Submitted(c)
        /\ Between.scst = s /\ Between.kernel = k /\ Between.writecache = writecache /\ Between.page = before.page
        /\ (Between.scst)' = scst' /\ (Between.kernel)' = kernel' /\ (Between.writecache)' = writecache'
    BY <1>1, <1>12, <2>1, <2>2, <2>3, Submit
  <2>5. /\ Atomic!Found(s, name) /\ Atomic!save(s, p) = t /\ Atomic!save(t, q) = save(t, q)
        /\ Atomic!Unbound(p) = q
    BY <1>3, SameStore, SameOthers DEF t, q
  <2>6. ~Atomic!LunBusy(f, name[2].lun) /\ (name[2].lun # 0 => Atomic!LunBusy(f, 0))
    BY <1>3, <2>4, SameStore DEF Atomic!LunBusy, Free
  <2>7. \/ /\ scst' = t /\ kernel' \in Atomic!Applied(t, Files, k)
           /\ writecache' \in Atomic!CachingOutcomes(t, Files, writecache)
        \/ /\ scst' = save(t, q) /\ UNCHANGED writecache
           /\ \E r \in Atomic!ApplyRaised(t, Files, k) :
                 kernel' \in Atomic!Applied(scst', Files, r) \cup Atomic!ApplyRaised(scst', Files, r)
    BY <1>12, SameKernel, SameOthers DEF K
  <2>8. \A r \in Atomic!ApplyRaised(t, Files, k) :
           Atomic!rem_target(r, Atomic!Detached(p, Files, {} \cap Atomic!Targets(r))) = r
    <3> TAKE r \in Atomic!ApplyRaised(t, Files, k)
    <3>1. r \in Kernel
      BY <1>10, SameKernel DEF K
    <3>2. Atomic!Detached(p, Files, {} \cap Atomic!Targets(r)) = {}
      BY DEF Atomic!Detached
    <3> QED
      BY <3>1, <3>2, NothingDetached
  <2>9. Atomic!scst_access_pattern_bind(c, name, f)
    <3>1. [name[2] EXCEPT !.filename = f] = p
      BY DEF p, BoundPattern
    <3> QED
      BY <1>12, <2>4, <2>5, <2>6, <2>7, <2>8, <3>1, SameOthers DEF Atomic!scst_access_pattern_bind
  <2> QED
    BY <2>4, <2>9 DEF Atomic!Next, Atomic!Request
<1>13. CASE SaveAt(c, s, k, p, Back(q))
  <2>1. \/ SaveAt(c, s, k, p, Back(q))' /\ Further(c)
        \/ /\ scst' = t /\ kernel' \in K
           /\ prog'[c] = Back(q) /\ stage' = "running" /\ UNCHANGED <<writecache, page>>
        \/ /\ Last(c) /\ scst' = t /\ kernel' \in Applied(t, Files, k)
           /\ writecache' \in Now!CachingOutcomes(t, Files, writecache)
           /\ UNCHANGED page
    BY <1>2, <1>13, SaveStep DEF t, K
  <2>2. CASE /\ scst' = t /\ kernel' \in K
             /\ prog'[c] = Back(q) /\ stage' = "running" /\ UNCHANGED <<writecache, page>>
    <3>1. BackAt(c, t, K, q)'
      BY <2>2 DEF BackAt, At
    <3>2. Further(c)
      BY <2>2, Programs3 DEF Further, Back
    <3> QED
      BY <1>11, <3>1, <3>2
  <2> QED
    BY <1>11, <1>12, <2>1, <2>2
<1>14. CASE BackAt(c, t, K, q)
  <2>1. \/ BackAt(c, t, K, q)' /\ Further(c)
        \/ /\ Last(c) /\ scst' = save(t, q) /\ UNCHANGED <<writecache, page>>
           /\ \E r \in K : kernel' \in Applied(scst', Files, r) \cup ApplyRaised(scst', Files, r)
    BY <1>2, <1>14, BackStep
  <2> QED
    BY <1>11, <1>12, <2>1
<1> QED
  BY <1>6, <1>13, <1>14

\* What an unbinding from the store s and the kernel k leaves, which module
\* Iscsi allows whether the policy is applied or not after an error.
Unbinds(c, name, s, k, w) ==
    LET t == save(s, Unbound(name[2]))
    IN  /\ name \in before.page[c].unbind /\ Found(s, name)
        /\ scst' = t
        /\ \/ /\ kernel' \in Applied(t, Files, k)
              /\ writecache' \in Now!CachingOutcomes(t, Files, w)
           \/ /\ kernel' \in ApplyRaised(t, Files, k)
              /\ writecache' \in Now!CachingOutcomes(t, Files, w) \cup {w}

LEMMA UnbindStep ==
    ASSUME NEW c \in Clients, NEW name, NEW s, NEW k \in Kernel, NEW w, Unbinds(c, name, s, k, w),
           Atomic!Shown(c), Atomic!Submitted(c),
           Between.scst = s, Between.kernel = k, Between.writecache = w, Between.page = before.page,
           (Between.scst)' = scst', (Between.kernel)' = kernel', (Between.writecache)' = writecache'
    PROVE  Atomic!scst_access_pattern_unbind(c, name)
<1> DEFINE p == Unbound(name[2])
           t == save(s, p)
<1>1. /\ Atomic!Found(s, name) /\ Atomic!Unbound(name[2]) = p /\ Atomic!save(s, p) = t
  BY SameStore, SameOthers DEF Unbinds
<1>2. /\ name \in before.page[c].unbind /\ scst' = t
      /\ \/ /\ kernel' \in Atomic!Applied(t, Files, k)
            /\ writecache' \in Atomic!CachingOutcomes(t, Files, w)
         \/ /\ kernel' \in Atomic!ApplyRaised(t, Files, k)
            /\ writecache' \in Atomic!CachingOutcomes(t, Files, w) \cup {w}
  BY SameKernel, SameOthers DEF Unbinds
<1> HIDE DEF p, t
<1>3. Atomic!rem_target(k, Atomic!Detached(name[2], Files, {})) = k
  <2>1. Atomic!Detached(name[2], Files, {}) = {}
    BY DEF Atomic!Detached
  <2> QED
    BY <2>1, NothingDetached
<1>4. Atomic!listed = Files
  BY SameOthers
<1> QED
  BY <1>1, <1>2, <1>3, <1>4 DEF Atomic!scst_access_pattern_unbind

\* A pattern is unbound; the caching policy may be left undone once an error
\* was reported.
LEMMA UnbindCase ==
    ASSUME QInv, before # NoRequest, NEW c \in Clients, Handling(c), Effect(c),
           before.page[c] # NoPage, Unbinding(c)
    PROVE  QInv' /\ [Atomic!Next]_(Atomic!vars)
<1>1. PICK s, k : s = before.scst /\ k = before.kernel
  OBVIOUS
<1>2. /\ Types /\ Well(s) /\ s \in Seq(Section) /\ k \in Kernel /\ writecache \in [Arrays -> BOOLEAN]
      /\ before.page[c] \in Now!Page
  BY <1>1, Working
<1>3. PICK name \in before.page[c].unbind :
          LET p == Unbound(name[2])
          IN  /\ Found(s, name)
              /\ \/ SaveAt(c, s, k, p, Report)
                 \/ ReportAt(c, save(s, p), ApplyRaised(save(s, p), Files, k))
  BY <1>1 DEF Unbinding
<1> DEFINE p == Unbound(name[2])
           t == save(s, p)
           K == ApplyRaised(t, Files, k)
<1>4. p \in AccessPattern /\ p.filename = NoFile
  <2>1. name[2] \in AccessPattern
    BY <1>2, PageSections
  <2> QED
    BY <2>1 DEF AccessPattern, Unbound
<1>5. SaveAt(c, s, k, p, Report) \/ ReportAt(c, t, K)
  BY <1>3
<1> HIDE DEF p, t, K
<1>6. /\ Well(delete_by_name(s, p.name)) /\ Near(s, delete_by_name(s, p.name))
      /\ Well(t) /\ Near(s, t) /\ Near(s, s)
  BY <1>2, <1>4, PatternStores DEF t, Near
<1>7. Applied(t, Files, k) \in SUBSET Kernel /\ K \in SUBSET Kernel
  BY <1>2, <1>6, ApplyType DEF Well, K
\* The request goes on.
<1>8. ASSUME Further(c), SaveAt(c, s, k, p, Report)' \/ ReportAt(c, t, K)'
      PROVE  QInv' /\ [Atomic!Next]_(Atomic!vars)
  <2>1. Well(scst') /\ Near(s, scst') /\ kernel' \in Kernel
    BY <1>2, <1>6, <1>7, <1>8 DEF SaveAt, ReportAt, At, t
  <2>2. before' = before => Position(c)'
    <3>1. before' = before => Unbinding(c)'
      BY <1>1, <1>3, <1>8 DEF Unbinding, p, t, K
    <3> QED
      BY <3>1 DEF Position
  <2> QED
    BY <1>1, <1>8, <2>1, <2>2, Advance
\* It is over.
<1>9. ASSUME Last(c), UNCHANGED page, scst' = t, kernel' \in Applied(t, Files, k) \cup K,
             writecache' \in Now!CachingOutcomes(t, Files, writecache)
      PROVE  QInv' /\ [Atomic!Next]_(Atomic!vars)
  <2>1. Well(scst') /\ kernel' \in Kernel
    BY <1>6, <1>7, <1>9
  <2>2. writecache' \in [Arrays -> BOOLEAN]
    BY <1>2, <1>9, CachingIsSetting
  <2>3. /\ QInv' /\ Atomic!Shown(c) /\ Atomic!Submitted(c)
        /\ Between.scst = s /\ Between.kernel = k /\ Between.writecache = writecache /\ Between.page = before.page
        /\ (Between.scst)' = scst' /\ (Between.kernel)' = kernel' /\ (Between.writecache)' = writecache'
    BY <1>1, <1>9, <2>1, <2>2, Submit
  <2>4. Unbinds(c, name, s, k, writecache)
    BY <1>3, <1>9 DEF Unbinds, p, t, K
  <2>5. Atomic!scst_access_pattern_unbind(c, name)
    BY <1>2, <2>3, <2>4, UnbindStep
  <2> QED
    BY <2>3, <2>5 DEF Atomic!Next, Atomic!Request
<1>10. CASE SaveAt(c, s, k, p, Report)
  <2>1. \/ SaveAt(c, s, k, p, Report)' /\ Further(c)
        \/ /\ scst' = t /\ kernel' \in K
           /\ prog'[c] = Report /\ stage' = "running" /\ UNCHANGED <<writecache, page>>
        \/ /\ Last(c) /\ scst' = t /\ kernel' \in Applied(t, Files, k)
           /\ writecache' \in Now!CachingOutcomes(t, Files, writecache)
           /\ UNCHANGED page
    BY <1>2, <1>10, SaveStep DEF t, K
  <2>2. CASE /\ scst' = t /\ kernel' \in K
             /\ prog'[c] = Report /\ stage' = "running" /\ UNCHANGED <<writecache, page>>
    <3>1. ReportAt(c, t, K)'
      BY <2>2 DEF ReportAt, At
    <3>2. Further(c)
      BY <2>2, Programs2 DEF Further, Report
    <3> QED
      BY <1>8, <3>1, <3>2
  <2> QED
    BY <1>8, <1>9, <2>1, <2>2
<1>11. CASE ReportAt(c, t, K)
  <2>1. \/ ReportAt(c, t, K)' /\ Further(c)
        \/ /\ Last(c) /\ scst' = t /\ kernel' \in K
           /\ writecache' \in Now!CachingOutcomes(t, Files, writecache)
           /\ UNCHANGED page
    BY <1>2, <1>11, ReportStep
  <2> QED
    BY <1>8, <1>9, <2>1
<1> QED
  BY <1>5, <1>10, <1>11

\* What adding a credential leaves: it is there, or it is withdrawn again
\* because it could not be applied.
Adds(c, u, f, s, k) ==
    LET t == Append(s, Credential(u, f))
        K == ApplyRaised(t, Files, k)
    IN  /\ f \in before.page[c].volumes /\ Origin[f] = f
        /\ ~\E i \in Credentials(s) : s[i].username = u /\ s[i].filename = f
        /\ \/ scst' = t /\ kernel' \in Applied(t, Files, k) \cup K
           \/ /\ scst' = delete_by_username_and_filename(t, u, f)
              /\ \E r \in K : kernel' \in {r} \cup Applied(scst', Files, r) \cup ApplyRaised(scst', Files, r)

LEMMA AdmitStep ==
    ASSUME NEW c \in Clients, NEW u, NEW f, NEW s, NEW k \in Kernel, NEW w, Adds(c, u, f, s, k),
           Atomic!Shown(c), Atomic!Submitted(c), writecache' = w,
           Between.scst = s, Between.kernel = k, Between.writecache = w, Between.page = before.page,
           (Between.scst)' = scst', (Between.kernel)' = kernel', (Between.writecache)' = writecache'
    PROVE  Atomic!scst_auth_credential_add(c, u, f)
<1> DEFINE t == Append(s, Credential(u, f))
<1>1. /\ Atomic!Credentials(s) = Credentials(s)
      /\ Atomic!delete_by_username_and_filename(t, u, f) = delete_by_username_and_filename(t, u, f)
      /\ Append(s, [type |-> "auth-credential", username |-> u, filename |-> f]) = t
  BY SameStore DEF Credential
<1>2. /\ f \in before.page[c].volumes /\ Origin[f] = f
      /\ ~\E i \in Credentials(s) : s[i].username = u /\ s[i].filename = f
      /\ \/ scst' = t /\ kernel' \in Atomic!Applied(t, Files, k)
         \/ scst' = t /\ kernel' \in Atomic!ApplyRaised(t, Files, k)
         \/ /\ scst' = delete_by_username_and_filename(t, u, f)
            /\ \E r \in Atomic!ApplyRaised(t, Files, k) :
                  kernel' \in {r} \cup Atomic!Applied(scst', Files, r) \cup Atomic!ApplyRaised(scst', Files, r)
  BY SameKernel DEF Adds
<1> HIDE DEF t
<1> QED
  BY <1>1, <1>2 DEF Atomic!scst_auth_credential_add

\* A credential is added.
LEMMA AdmitCase ==
    ASSUME QInv, before # NoRequest, NEW c \in Clients, Handling(c), Effect(c),
           before.page[c] # NoPage, Adding(c)
    PROVE  QInv' /\ [Atomic!Next]_(Atomic!vars)
<1>1. PICK s, k : s = before.scst /\ k = before.kernel
  OBVIOUS
<1>2. /\ Types /\ Well(s) /\ s \in Seq(Section) /\ k \in Kernel /\ writecache \in [Arrays -> BOOLEAN]
      /\ before.page[c] \in Now!Page
  BY <1>1, Working
<1>3. PICK u \in Users, f \in before.page[c].volumes :
          LET p == Credential(u, f)
          IN  /\ Origin[f] = f
              /\ ~\E i \in Credentials(s) : s[i].username = u /\ s[i].filename = f
              /\ \/ AddAt(c, s, k, p)
                 \/ WithdrawAt(c, Append(s, p), ApplyRaised(Append(s, p), Files, k), u, f)
  BY <1>1 DEF Adding
<1> DEFINE p == Credential(u, f)
           t == Append(s, p)
           d == delete_by_username_and_filename(t, u, f)
           K == ApplyRaised(t, Files, k)
<1>4. f \in Files
  BY <1>2, PageSections
<1>5. p.username = u /\ p.filename = f
  BY DEF Credential
<1>6. AddAt(c, s, k, p) \/ WithdrawAt(c, t, K, u, f)
  BY <1>3
<1>7. Well(t) /\ Near(s, t) /\ Well(d) /\ Near(s, d) /\ Near(s, s)
  BY <1>2, <1>4, CredentialStores DEF Near
<1> HIDE DEF p, t, d, K
<1>8. Applied(t, Files, k) \in SUBSET Kernel /\ K \in SUBSET Kernel
  BY <1>2, <1>7, ApplyType DEF Well, K
\* The request goes on.
<1>9. ASSUME Further(c), AddAt(c, s, k, p)' \/ WithdrawAt(c, t, K, u, f)'
      PROVE  QInv' /\ [Atomic!Next]_(Atomic!vars)
  <2>1. Well(scst') /\ Near(s, scst') /\ kernel' \in Kernel
    BY <1>2, <1>7, <1>8, <1>9 DEF AddAt, WithdrawAt, At, t, d
  <2>2. before' = before => Position(c)'
    <3>1. before' = before => Adding(c)'
      BY <1>1, <1>3, <1>9 DEF Adding, p, t, K
    <3> QED
      BY <3>1 DEF Position
  <2> QED
    BY <1>1, <1>9, <2>1, <2>2, Advance
\* It is over.
<1>10. ASSUME Last(c), UNCHANGED <<writecache, page>>,
              \/ scst' = t /\ kernel' \in Applied(t, Files, k)
              \/ /\ scst' = d
                 /\ \E r \in K : kernel' \in Applied(scst', Files, r) \cup ApplyRaised(scst', Files, r)
       PROVE  QInv' /\ [Atomic!Next]_(Atomic!vars)
  <2>1. Well(scst')
    BY <1>7, <1>10
  <2>2. kernel' \in Kernel
    BY <1>8, <1>10, <2>1, ApplyType DEF Well
  <2>3. /\ QInv' /\ Atomic!Shown(c) /\ Atomic!Submitted(c)
        /\ Between.scst = s /\ Between.kernel = k /\ Between.writecache = writecache /\ Between.page = before.page
        /\ (Between.scst)' = scst' /\ (Between.kernel)' = kernel' /\ (Between.writecache)' = writecache'
    BY <1>1, <1>2, <1>10, <2>1, <2>2, Submit
  <2>4. Adds(c, u, f, s, k)
    BY <1>3, <1>10 DEF Adds, p, t, d, K
  <2>5. Atomic!scst_auth_credential_add(c, u, f)
    BY <1>2, <1>10, <2>3, <2>4, AdmitStep
  <2> QED
    BY <1>3, <2>3, <2>5 DEF Atomic!Next, Atomic!Request
<1>11. CASE AddAt(c, s, k, p)
  <2>1. \/ AddAt(c, s, k, p)' /\ Further(c)
        \/ /\ scst' = t /\ kernel' \in K
           /\ prog'[c] = Withdraw(u, f) /\ stage' = "running" /\ UNCHANGED <<writecache, page>>
        \/ /\ Last(c) /\ scst' = t /\ kernel' \in Applied(t, Files, k)
           /\ UNCHANGED <<writecache, page>>
    BY <1>2, <1>5, <1>11, AddStep DEF t, K
  <2>2. CASE /\ scst' = t /\ kernel' \in K
             /\ prog'[c] = Withdraw(u, f) /\ stage' = "running" /\ UNCHANGED <<writecache, page>>
    <3>1. WithdrawAt(c, t, K, u, f)'
      BY <2>2 DEF WithdrawAt, At
    <3>2. Further(c)
      BY <2>2, Programs3 DEF Further, Withdraw
    <3> QED
      BY <1>9, <3>1, <3>2
  <2> QED
    BY <1>9, <1>10, <2>1, <2>2
<1>12. CASE WithdrawAt(c, t, K, u, f)
  <2>1. \/ WithdrawAt(c, t, K, u, f)' /\ Further(c)
        \/ /\ Last(c) /\ scst' = d
           /\ \E r \in K : kernel' \in Applied(scst', Files, r) \cup ApplyRaised(scst', Files, r)
           /\ UNCHANGED <<writecache, page>>
    BY <1>2, <1>12, WithdrawStep DEF d
  <2> QED
    BY <1>9, <1>10, <2>1
<1> QED
  BY <1>6, <1>11, <1>12

\* A credential is deleted.
LEMMA ExpelCase ==
    ASSUME QInv, before # NoRequest, NEW c \in Clients, Handling(c), Effect(c),
           before.page[c] # NoPage, Expelling(c)
    PROVE  QInv' /\ [Atomic!Next]_(Atomic!vars)
<1>1. PICK s, k : s = before.scst /\ k = before.kernel
  OBVIOUS
<1>2. /\ Types /\ Well(s) /\ s \in Seq(Section) /\ k \in Kernel /\ writecache \in [Arrays -> BOOLEAN]
      /\ before.page[c] \in Now!Page
  BY <1>1, Working
<1>3. PICK name \in before.page[c].credentials :
          Found(s, name) /\ ExpelAt(c, s, k, name[2].username, name[2].filename)
  BY <1>1 DEF Expelling
<1> DEFINE u == name[2].username
           f == name[2].filename
           d == delete_by_username_and_filename(s, u, f)
<1>4. u \in Users /\ f \in Files
  BY <1>2, PageSections DEF AuthCredential
<1>5. ExpelAt(c, s, k, u, f)
  BY <1>3
<1> HIDE DEF u, f
<1>6. Well(d) /\ Near(s, d) /\ Near(s, s)
  <2>1. Near(s, s)
    BY DEF Near
  <2> QED
    BY <1>2, <1>4, <2>1, CredentialStores
<1>7. CASE ExpelAt(c, s, k, u, f)' /\ Further(c)
  <2>1. Well(scst') /\ Near(s, scst') /\ kernel' \in Kernel
    BY <1>2, <1>6, <1>7 DEF ExpelAt, At
  <2>2. before' = before => Position(c)'
    <3>1. before' = before => Expelling(c)'
      BY <1>1, <1>3, <1>7 DEF Expelling, u, f
    <3> QED
      BY <3>1 DEF Position
  <2> QED
    BY <1>1, <1>7, <2>1, <2>2, Advance
<1>8. CASE /\ Last(c) /\ scst' = d
           /\ kernel' \in Applied(scst', Files, k) \cup ApplyRaised(scst', Files, k)
           /\ UNCHANGED <<writecache, page>>
  <2> HIDE DEF d
  <2>1. kernel' \in Kernel /\ Well(scst')
    BY <1>2, <1>6, <1>8, ApplyType DEF Well
  <2>2. /\ QInv' /\ Atomic!Shown(c) /\ Atomic!Submitted(c)
        /\ Between.scst = s /\ Between.kernel = k /\ Between.writecache = writecache /\ Between.page = before.page
        /\ (Between.scst)' = scst' /\ (Between.kernel)' = kernel' /\ (Between.writecache)' = writecache'
    BY <1>1, <1>2, <1>8, <2>1, Submit
  <2>3. /\ Atomic!Found(s, name)
        /\ Atomic!delete_by_username_and_filename(s, name[2].username, name[2].filename) = d
    BY <1>3, SameStore DEF d, u, f
  <2>4. kernel' \in Atomic!Applied(scst', Files, k) \cup Atomic!ApplyRaised(scst', Files, k)
    BY <1>8, SameKernel
  <2>5. Atomic!scst_auth_credential_delete(c, name)
    BY <1>3, <1>8, <2>2, <2>3, <2>4 DEF Atomic!scst_auth_credential_delete
  <2> QED
    BY <1>3, <2>2, <2>5 DEF Atomic!Next, Atomic!Request
<1> QED
  BY <1>2, <1>5, <1>7, <1>8, ExpelStep

\* Every effect.
LEMMA EffectCase ==
    ASSUME QInv, NEW c \in Clients, Effect(c)
    PROVE  QInv' /\ [Atomic!Next]_(Atomic!vars)
<1>1. before # NoRequest
  BY DEF QInv, Effect
<1>2. PICK d \in Clients : Handling(d)
  BY <1>1 DEF QInv
<1>3. Handling(c)
  BY <1>2 DEF Handling, Effect
<1> QED
  BY <1>1, <1>3, LoadCase, CreateCase, DeleteCase, EditCase, BindCase, UnbindCase, AdmitCase, ExpelCase
     DEF Handling, Position

-----------------------------------------------------------------------------
(***************************************************************************)
(* The beginning of a request, its end and the power                       *)
(***************************************************************************)

\* A handler that is at work has read its form and has not ended.
LEMMA StageAtWork ==
    ASSUME NEW c, Position(c)
    PROVE  stage \in {"running", "answered"}
BY DEF Position, Loading, Creating, Deleting, Editing, Binding, Unbinding, Adding, Expelling,
       LoadAt, NewAt, DeleteAt, EditAt, SaveAt, BackAt, ReportAt, AddAt, WithdrawAt, ExpelAt, At

\* It has something left to do.
LEMMA WorkLeft ==
    ASSUME NEW c, Position(c)
    PROVE  prog[c] # <<>>
<1>1. ASSUME NEW s, NEW k, LoadAt(c, s, k) PROVE prog[c] # <<>>
  BY <1>1, Programs1, Programs2 DEF LoadAt, At
<1>2. ASSUME NEW s, NEW k, NEW p, NewAt(c, s, k, p) \/ DeleteAt(c, s, k, p) \/ EditAt(c, s, k, p)
      PROVE  prog[c] # <<>>
  BY <1>2, Programs1, Programs2 DEF NewAt, DeleteAt, EditAt, At
<1>3. ASSUME NEW s, NEW k, NEW p, NEW e, SaveAt(c, s, k, p, e) PROVE prog[c] # <<>>
  BY <1>3, Programs1, Programs2, Programs3, Programs4 DEF SaveAt, At
<1>4. ASSUME NEW t, NEW K, NEW q, BackAt(c, t, K, q) PROVE prog[c] # <<>>
  BY <1>4, Programs1, Programs2, Programs3 DEF BackAt, At, Back
<1>5. ASSUME NEW t, NEW K, ReportAt(c, t, K) PROVE prog[c] # <<>>
  BY <1>5, Programs1, Programs2 DEF ReportAt, At, Report
<1>6. ASSUME NEW s, NEW k, NEW p, AddAt(c, s, k, p) PROVE prog[c] # <<>>
  BY <1>6, Programs1, Programs2 DEF AddAt, At
<1>7. ASSUME NEW t, NEW K, NEW u, NEW f, WithdrawAt(c, t, K, u, f) \/ ExpelAt(c, t, K, u, f)
      PROVE  prog[c] # <<>>
  BY <1>7, Programs1, Programs2, Programs3 DEF WithdrawAt, ExpelAt, At, Withdraw
<1> QED
  BY <1>1, <1>2, <1>3, <1>4, <1>5, <1>6, <1>7
     DEF Position, Loading, Creating, Deleting, Editing, Binding, Unbinding, Adding, Expelling

\* The checks a handler makes when it begins.
LEMMA SameChecks ==
    /\ \A n : Now!NameExists(n) <=> ~Absent(scst, n)
    /\ \A f, l : Now!LunBusy(f, l) <=> ~Free(scst, f, l)
BY DEF Now!NameExists, Absent, Now!LunBusy, Free, Now!BoundTo, BoundTo, Now!Patterns, Patterns

\* A program that is not empty starts at a position.
LEMMA BeginPosition ==
    ASSUME NEW c \in Clients, NEW p, p # <<>>, p = PageLoad \/ p \in Programs(c),
           before' = Snapshot, prog'[c] = p, stage' = "running", UNCHANGED <<scst, kernel>>
    PROVE  Position(c)'
<1>1. before'.scst = scst /\ before'.kernel = kernel /\ before'.page = page
  BY DEF Snapshot
<1>2. CASE p = PageLoad
  BY <1>1, <1>2 DEF PageLoad, Position, Loading, LoadAt, At
<1>3. CASE p \in Programs(c)
  <2>1. page[c] # NoPage /\ before'.page[c] # NoPage
    BY <1>1, <1>3 DEF Programs
  <2>2. ASSUME NEW n \in Names, NEW l \in Luns, NEW fl \in Flags, p = New(n, l, fl)
        PROVE  Creating(c)'
    <3>1. Absent(scst, n) /\ p = <<<<"add", Now!Pattern(n, l, fl)>>>>
      BY <2>2, SameChecks DEF New
    <3>2. (NewAt(c, before.scst, before.kernel, Now!Pattern(n, l, fl)))'
      BY <1>1, <3>1 DEF NewAt, At
    <3>3. (Absent(before.scst, n))'
      BY <1>1, <3>1 DEF Absent, Patterns
    <3> QED
      BY <3>2, <3>3 DEF Creating
  <2>3. ASSUME NEW name \in page[c].unbound, p = Delete(name)
        PROVE  Deleting(c)'
    BY <1>1, <2>3 DEF Delete, Deleting, DeleteAt, At, Found
  <2>4. ASSUME NEW name \in page[c].unbound, NEW n \in Names, NEW l \in Luns, NEW fl \in Flags,
               p = Edit(name, n, l, fl)
        PROVE  Editing(c)'
    <3> DEFINE q == Now!Pattern(n, l, fl)
    <3>1. /\ Found(scst, name) /\ (n = name[2].name \/ Absent(scst, n))
          /\ p = <<<<"delete", q.name>>, <<"add", q>>>>
      BY <2>4, SameChecks DEF Edit, Save
    <3>2. (EditAt(c, before.scst, before.kernel, Now!Pattern(n, l, fl)))'
      BY <1>1, <3>1 DEF EditAt, At
    <3>3. (Found(before.scst, name) /\ (n = name[2].name \/ Absent(before.scst, n)))'
      BY <1>1, <3>1 DEF Absent, Patterns, Found
    <3> QED
      BY <1>1, <3>2, <3>3 DEF Editing
  <2>5. ASSUME NEW name \in page[c].unbound, NEW f \in page[c].volumes, p = Bind(name, f)
        PROVE  Binding(c)'
    <3> DEFINE q == BoundPattern(name, f)
    <3>1. /\ Found(scst, name) /\ Free(scst, f, name[2].lun) /\ (name[2].lun # 0 => ~Free(scst, f, 0))
          /\ p = Save(q) \o <<<<"apply", Save(Unbound(q)) \o <<<<"apply", <<>>>>>>>>, <<"caching">>>>
      BY <2>5, SameChecks DEF Bind, BoundPattern
    <3>2. Save(Unbound(q)) \o <<<<"apply", <<>>>>>> = Back(Unbound(q))
      BY ProgramsConcat3 DEF Save, Back
    <3>3. p = <<<<"delete", q.name>>, <<"add", q>>, <<"apply", Back(Unbound(q))>>, <<"caching">>>>
      BY <3>1, <3>2, ProgramsConcat4 DEF Save
    <3>4. (SaveAt(c, before.scst, before.kernel, BoundPattern(name, f), Back(Unbound(BoundPattern(name, f)))))'
      BY <1>1, <3>3 DEF SaveAt, At
    <3>5. /\ Found(before'.scst, name) /\ Free(before'.scst, f, name[2].lun)
          /\ name[2].lun # 0 => ~Free(before'.scst, f, 0)
      BY <1>1, <3>1
    <3> QED
      BY <1>1, <3>4, <3>5 DEF Binding
  <2>6. ASSUME NEW name \in page[c].unbind, p = Unbind(name)
        PROVE  Unbinding(c)'
    <3> DEFINE q == Unbound(name[2])
    <3>1. Found(scst, name) /\ p = Save(q) \o <<<<"apply", Report>>, <<"caching">>>>
      BY <2>6 DEF Unbind, Report
    <3>2. p = <<<<"delete", q.name>>, <<"add", q>>, <<"apply", Report>>, <<"caching">>>>
      BY <3>1, ProgramsConcat4 DEF Save
    <3>3. (SaveAt(c, before.scst, before.kernel, Unbound(name[2]), Report))'
      BY <1>1, <3>2 DEF SaveAt, At
    <3> QED
      BY <1>1, <3>1, <3>3 DEF Unbinding
  <2>7. ASSUME NEW u \in Users, NEW f \in {g \in page[c].volumes : Origin[g] = g},
               p = AddCredential(u, f)
        PROVE  Adding(c)'
    <3> DEFINE q == Credential(u, f)
    <3>1. /\ ~\E i \in Credentials(scst) : scst[i].username = u /\ scst[i].filename = f
          /\ p = <<<<"add", q>>, <<"apply", Withdraw(u, f)>>>>
      BY <2>7 DEF AddCredential, Withdraw, Credential
    <3>2. q.username = u /\ q.filename = f
      BY DEF Credential
    <3>3. (AddAt(c, before.scst, before.kernel, Credential(u, f)))'
      BY <1>1, <3>1, <3>2 DEF AddAt, At
    <3>4. ~\E i \in Credentials(before'.scst) : before'.scst[i].username = u /\ before'.scst[i].filename = f
      BY <1>1, <3>1
    <3> QED
      BY <1>1, <3>3, <3>4 DEF Adding, Credentials
  <2>8. ASSUME NEW name \in page[c].credentials, p = DeleteCredential(name)
        PROVE  Expelling(c)'
    BY <1>1, <2>8 DEF DeleteCredential, Expelling, ExpelAt, At, Found
  <2>9. \/ \E n \in Names, l \in Luns, fl \in Flags : p = New(n, l, fl)
        \/ \E name \in page[c].unbound : p = Delete(name)
        \/ \E name \in page[c].unbound, n \in Names, l \in Luns, fl \in Flags : p = Edit(name, n, l, fl)
        \/ \E name \in page[c].unbound, f \in page[c].volumes : p = Bind(name, f)
        \/ \E name \in page[c].unbind : p = Unbind(name)
        \/ \E u \in Users, f \in {g \in page[c].volumes : Origin[g] = g} : p = AddCredential(u, f)
        \/ \E name \in page[c].credentials : p = DeleteCredential(name)
    BY <1>3, <2>1 DEF Programs
  <2> QED
    BY <2>1, <2>2, <2>3, <2>4, <2>5, <2>6, <2>7, <2>8, <2>9 DEF Position
<1> QED
  BY <1>2, <1>3

\* The beginning of a request does not show, unless the form is invalid.
LEMMA BeginCase ==
    ASSUME QInv, NEW c \in Clients, Begin(c)
    PROVE  QInv' /\ [Atomic!Next]_(Atomic!vars)
<1>1. before = NoRequest
  <2>1. stage = "started"
    BY DEF Begin, ReadForm
  <2>2. before # NoRequest => stage \in {"running", "answered"}
    BY StageAtWork DEF QInv, Handling
  <2> QED
    BY <2>1, <2>2
<1>2. PICK p : /\ p = <<>> \/ p = PageLoad \/ p \in Programs(c)
               /\ prog' = [prog EXCEPT ![c] = p]
               /\ before' = IF p = <<>> THEN before ELSE Snapshot
  BY DEF Begin, ReadForm
<1>3. /\ serving = c /\ serving' = serving /\ plugin' = plugin /\ stage' = "running"
      /\ page' = [page EXCEPT ![c] = NoPage] /\ UNCHANGED <<scst, kernel, writecache>>
  BY DEF Begin, ReadForm
<1>4. /\ Types /\ page' \in [Clients -> Now!Page \cup {NoPage}]
      /\ DistinctNames(scst) /\ DistinctLuns(scst) /\ \A d \in Clients : prog[d] = <<>>
  BY <1>1, <1>3 DEF QInv, Types
<1>5. DistinctNames(scst') /\ DistinctLuns(scst')
  BY <1>3, <1>4
<1>6. CASE p = <<>>
  <2>1. before' = NoRequest /\ \A d \in Clients : prog'[d] = <<>>
    BY <1>1, <1>2, <1>4, <1>6 DEF Types
  <2>2. QInv'
    BY <1>2, <1>3, <1>4, <1>5, <2>1 DEF QInv, Types
  <2>3. /\ Between.scst = scst /\ Between.kernel = kernel
        /\ Between.writecache = writecache /\ Between.page = page
        /\ (Between.scst)' = scst' /\ (Between.kernel)' = kernel'
        /\ (Between.writecache)' = writecache' /\ (Between.page)' = page'
    BY <1>1, <2>1, BetweenIdle
  <2>4. CASE page[c] = NoPage
    <3>1. page' = page
      BY <1>3, <1>4, <2>4 DEF Types
    <3> QED
      BY <1>3, <2>2, <2>3, <3>1 DEF Atomic!vars
  <2>5. CASE page[c] # NoPage
    <3>1. Atomic!Shown(c) /\ Atomic!InvalidForm(c)
      BY <1>3, <2>3, <2>5 DEF Atomic!InvalidForm, Atomic!Shown, Atomic!Refuse, Atomic!Submitted
    <3> QED
      BY <2>2, <3>1 DEF Atomic!Next, Atomic!Request
  <2> QED
    BY <2>4, <2>5
<1>7. CASE p # <<>>
  <2>1. before' = Snapshot /\ Snapshot \in Snapshots /\ before' # NoRequest
    BY <1>2, <1>4, <1>7, RequestsAssumption DEF Types, Snapshots, Snapshot
  <2>2. /\ before'.scst = scst /\ before'.kernel = kernel
        /\ before'.writecache = writecache /\ before'.page = page
    BY <2>1 DEF Snapshot
  <2>3. prog'[c] = p /\ \A d \in Clients \ {c} : prog'[d] = <<>>
    BY <1>2, <1>4 DEF Types
  <2>4. Position(c)'
    BY <1>2, <1>3, <1>7, <2>1, <2>3, BeginPosition
  <2>5. Well(before'.scst) /\ Near(before'.scst, scst')
    BY <1>3, <1>4, <2>2 DEF Well, Near, Types
  <2>6. Handling(c)'
    <3>1. /\ serving' = c /\ page' = [before'.page EXCEPT ![c] = NoPage]
          /\ writecache' = before'.writecache
      BY <1>3, <2>2
    <3>2. (Well(before.scst) /\ Near(before.scst, scst))'
      BY <2>5 DEF Well
    <3> QED
      BY <2>3, <2>4, <3>1, <3>2 DEF Handling
  <2>7. Types'
    BY <1>2, <1>3, <1>4, <2>1 DEF Types
  <2>8. QInv'
    BY <1>5, <2>1, <2>6, <2>7 DEF QInv
  <2>9. Between' = Between
    BY <1>1, <2>1 DEF Between
  <2> QED
    BY <2>8, <2>9 DEF Atomic!vars
<1> QED
  BY <1>6, <1>7

\* Steps of the server alone.
LEMMA ServerCase ==
    ASSUME QInv, UNCHANGED <<store, prog, before>>, plugin' \in Plugins \cup {"none"},
           before # NoRequest => UNCHANGED <<serving, stage>>
    PROVE  QInv' /\ UNCHANGED Atomic!vars
<1>1. UNCHANGED <<scst, kernel, writecache, page, prog, before>>
  BY DEF store
<1>2. Types'
  BY <1>1 DEF QInv, Types
<1>3. ASSUME NEW c \in Clients, Handling(c), UNCHANGED <<serving, stage>> PROVE Handling(c)'
  <2>1. Position(c)'
    <3>1. UNCHANGED <<scst, kernel, prog, before, stage>>
      BY <1>1, <1>3
    <3>2. Loading(c) => Loading(c)'
      BY <3>1 DEF Loading, LoadAt, At
    <3>3. Creating(c) => Creating(c)'
      BY <3>1 DEF Creating, Absent, Patterns, NewAt, At
    <3>4. Deleting(c) => Deleting(c)'
      BY <3>1 DEF Deleting, DeleteAt, At, Found
    <3>5. Editing(c) => Editing(c)'
      BY <3>1 DEF Editing, EditAt, At, Found, Absent, Patterns
    <3>6. Binding(c) => Binding(c)'
      BY <3>1 DEF Binding, SaveAt, BackAt, At
    <3>7. Unbinding(c) => Unbinding(c)'
      BY <3>1 DEF Unbinding, SaveAt, ReportAt, At
    <3>8. Adding(c) => Adding(c)'
      BY <3>1 DEF Adding, AddAt, WithdrawAt, At, Credentials
    <3>9. Expelling(c) => Expelling(c)'
      BY <3>1 DEF Expelling, ExpelAt, At, Found
    <3> QED
      BY <1>3, <3>1, <3>2, <3>3, <3>4, <3>5, <3>6, <3>7, <3>8, <3>9 DEF Handling, Position
  <2>2. (Well(before.scst) /\ Near(before.scst, scst))'
    <3>1. Well(before.scst) /\ Near(before.scst, scst)
      BY <1>3 DEF Handling
    <3>2. before'.scst = before.scst /\ scst' = scst
      BY <1>1
    <3>3. Well(before'.scst) /\ Near(before'.scst, scst')
      BY <3>1, <3>2
    <3> QED
      BY <3>3 DEF Well
  <2> QED
    BY <1>1, <1>3, <2>1, <2>2 DEF Handling
<1>4. DistinctNames(scst') /\ DistinctLuns(scst')
  BY <1>1 DEF QInv
<1>5. QInv'
  BY <1>1, <1>2, <1>3, <1>4 DEF QInv
<1>6. Between' = Between
  BY <1>1 DEF Between, Snapshot
<1> QED
  BY <1>5, <1>6 DEF Atomic!vars

\* The answer, when all is done; a new request, and one that is over.
LEMMA IdleCase ==
    ASSUME QInv, NEW c \in Clients,
           Answer(c) \/ ((Start(c) \/ Release(c)) /\ UNCHANGED <<store, prog, before>>)
    PROVE  QInv' /\ UNCHANGED Atomic!vars
<1>1. before = NoRequest
  <2>1. CASE Answer(c)
    <3> SUFFICES ASSUME before # NoRequest PROVE FALSE
      OBVIOUS
    <3>1. PICK d \in Clients : Handling(d)
      BY DEF QInv
    <3>2. d = c
      BY <2>1, <3>1 DEF Answer, Reply, Handling
    <3>3. prog[c] # <<>>
      BY <3>1, <3>2, WorkLeft DEF Handling
    <3> QED
      BY <2>1, <3>3 DEF Answer
  <2>2. CASE Start(c) \/ Release(c)
    <3>1. stage = "none"
      BY <2>2 DEF Start, Release
    <3>2. before # NoRequest => stage \in {"running", "answered"}
      BY StageAtWork DEF QInv, Handling
    <3> QED
      BY <3>1, <3>2
  <2> QED
    BY <2>1, <2>2
<1>2. UNCHANGED <<store, prog, before>> /\ plugin' \in Plugins \cup {"none"}
  BY DEF Answer, Reply, Start, Release, QInv, Types
<1> QED
  BY <1>1, <1>2, ServerCase

\* The process ends: what it has committed stays, and the store is
\* well-formed.
LEMMA EndedKeeps ==
    ASSUME QInv, NEW c \in Clients, Ended(c)
    PROVE  QInv' /\ before' = NoRequest
<1>1. /\ serving = c /\ plugin' = plugin /\ UNCHANGED <<scst, kernel, writecache, page>>
      /\ prog' = [prog EXCEPT ![c] = <<>>] /\ before' = NoRequest
  BY DEF Ended, End, Continue, store
<1>2. \A d \in Clients : prog'[d] = <<>>
  <2>1. \A d \in Clients \ {c} : prog[d] = <<>>
    BY <1>1 DEF QInv, Handling
  <2> QED
    BY <1>1, <2>1 DEF QInv, Types
<1>3. Types'
  BY <1>1 DEF QInv, Types
<1>4. DistinctNames(scst') /\ DistinctLuns(scst')
  BY <1>1 DEF QInv
<1> QED
  BY <1>1, <1>2, <1>3, <1>4 DEF QInv

\* What an apply can have made of the kernel when the process is ended at
\* work.
LEMMA KernelAtWork ==
    ASSUME QInv, before # NoRequest, NEW c \in Clients, Handling(c), stage = "running"
    PROVE  \/ kernel \in {before.kernel} \cup Applied(scst, Files, before.kernel)
           \/ \E t \in Tried : kernel \in ApplyRaised(t, Files, before.kernel)
<1> DEFINE s == before.scst
           k == before.kernel
           Goal == \/ kernel \in {k} \cup Applied(scst, Files, k)
                   \/ \E t \in Tried : kernel \in ApplyRaised(t, Files, k)
<1>1. kernel = k \/ kernel \in Applied(scst, Files, k) \/ kernel \in ApplyRaised(scst, Files, k) => Goal
  BY DEF Tried
<1>2. CASE Loading(c)
  BY <1>1, <1>2 DEF Loading, LoadAt, At
<1>3. CASE Creating(c) \/ Deleting(c) \/ Editing(c)
  BY <1>1, <1>3 DEF Creating, Deleting, Editing, NewAt, DeleteAt, EditAt, At
<1>4. CASE Binding(c) /\ before.page[c] # NoPage
  <2>1. PICK name \in before.page[c].unbound, f \in before.page[c].volumes :
            /\ Found(s, name)
            /\ \/ SaveAt(c, s, k, BoundPattern(name, f), Back(Unbound(BoundPattern(name, f))))
               \/ BackAt(c, save(s, BoundPattern(name, f)),
                         ApplyRaised(save(s, BoundPattern(name, f)), Files, k),
                         Unbound(BoundPattern(name, f)))
    BY <1>4 DEF Binding
  <2>2. CASE SaveAt(c, s, k, BoundPattern(name, f), Back(Unbound(BoundPattern(name, f))))
    BY <1>1, <2>2 DEF SaveAt, At
  <2>3. CASE kernel \in ApplyRaised(save(s, BoundPattern(name, f)), Files, k)
    <3>1. f \in Files
      BY <1>4, Working, PageSections
    <3>2. PICK i \in Patterns(s) : s[i] = name[2]
      <4>1. name[2] \in AccessPattern
        BY <1>4, Working, PageSections
      <4> QED
        BY <2>1, <4>1 DEF Found, Patterns, AccessPattern
    <3>3. Between.scst = s
      BY DEF Between
    <3>4. save(s, BoundPattern(name, f)) \in Tried
      BY <3>1, <3>2, <3>3 DEF Tried, BoundPattern
    <3> QED
      BY <2>3, <3>4
  <2> QED
    BY <2>1, <2>2, <2>3 DEF BackAt, At
<1>5. CASE Unbinding(c)
  BY <1>1, <1>5 DEF Unbinding, SaveAt, ReportAt, At
<1>6. CASE Adding(c)
  BY <1>1, <1>6 DEF Adding, AddAt, WithdrawAt, At
<1>7. CASE Expelling(c)
  BY <1>1, <1>7 DEF Expelling, ExpelAt, At
<1> QED
  BY <1>2, <1>3, <1>4, <1>5, <1>6, <1>7 DEF Handling, Position

\* A process that is ended at work leaves what GivenUp says, and after the
\* answer it leaves what module Iscsi says it may leave.
LEMMA EndedCase ==
    ASSUME QInv, NEW c \in Clients, Ended(c)
    PROVE  QInv' /\ [Atomic!Next \/ GivenUp]_(Atomic!vars)
<1>1. /\ serving = c /\ UNCHANGED <<scst, kernel, writecache, page>>
      /\ QInv' /\ before' = NoRequest
      /\ stage' = "none" /\ (stage = "running" => plugin = "lua" \/ input = "late")
  BY EndedKeeps DEF Ended, End, store, QInv, Types
<1>2. CASE before = NoRequest
  <2>1. Between' = Between
    BY <1>1, <1>2 DEF Between, Snapshot
  <2> QED
    BY <1>1, <2>1 DEF Atomic!vars
<1>3. CASE before # NoRequest /\ stage = "running"
  <2>1. Handling(c)
    BY <1>1, <1>3 DEF QInv, Handling
  <2>2. /\ Between.scst = before.scst /\ Between.kernel = before.kernel
        /\ Between.writecache = before.writecache /\ Between.page = before.page
        /\ (Between.scst)' = scst /\ (Between.kernel)' = kernel
        /\ (Between.writecache)' = writecache /\ (Between.page)' = page
    BY <1>1, <1>3, BetweenEnds
  <2>3. /\ Near(Between.scst, scst') /\ (Between.writecache)' = Between.writecache
        /\ (Between.page)' = [Between.page EXCEPT ![serving] = NoPage]
    BY <1>1, <2>1, <2>2 DEF Handling
  <2>4. \/ (Between.kernel)' \in {Between.kernel} \cup Applied(scst', Files, Between.kernel)
        \/ \E t \in Tried : (Between.kernel)' \in ApplyRaised(t, Files, Between.kernel)
    BY <1>1, <1>3, <2>1, <2>2, KernelAtWork
  <2>5. GivenUp
    BY <1>1, <1>3, <2>3, <2>4 DEF GivenUp
  <2> QED
    BY <1>1, <2>5
<1>4. CASE before # NoRequest /\ stage # "running"
  <2>1. Handling(c)
    BY <1>1, <1>4 DEF QInv, Handling
  <2>2. stage = "answered"
    BY <1>4, <2>1, StageAtWork DEF Handling
  <2>3. PICK s, k : s = before.scst /\ k = before.kernel
    OBVIOUS
  <2>4. /\ k \in Kernel /\ writecache = before.writecache
        /\ page = [before.page EXCEPT ![c] = NoPage]
    BY <1>4, <2>1, <2>3, Working
  <2>5. /\ Between.scst = s /\ Between.kernel = k
        /\ Between.writecache = writecache /\ Between.page = before.page
        /\ (Between.scst)' = scst' /\ (Between.kernel)' = kernel'
        /\ (Between.writecache)' = writecache' /\ (Between.page)' = page'
    BY <1>1, <1>4, <2>3, <2>4, BetweenEnds
  <2>6. before.page[c] # NoPage /\ (Unbinding(c) \/ Adding(c))
    BY <2>1, <2>2
       DEF Handling, Position, Loading, Creating, Deleting, Editing, Binding, Expelling,
           LoadAt, NewAt, DeleteAt, EditAt, SaveAt, BackAt, ExpelAt, At
  <2>7. Atomic!Shown(c) /\ Atomic!Submitted(c)
    BY <1>1, <2>4, <2>5, <2>6 DEF Atomic!Shown, Atomic!Submitted
  <2>8. CASE Unbinding(c)
    <3>1. PICK name \in before.page[c].unbind :
              LET t == save(s, Unbound(name[2]))
              IN  Found(s, name) /\ scst = t /\ kernel \in ApplyRaised(t, Files, k)
      BY <2>2, <2>3, <2>8 DEF Unbinding, SaveAt, ReportAt, At
    <3>2. Unbinds(c, name, s, k, writecache)
      BY <1>1, <3>1 DEF Unbinds
    <3>3. Atomic!scst_access_pattern_unbind(c, name)
      BY <2>4, <2>5, <2>7, <3>2, UnbindStep
    <3> QED
      BY <1>1, <2>5, <2>7, <3>3 DEF Atomic!Next, Atomic!Request
  <2>9. CASE Adding(c)
    <3>1. PICK u \in Users, f \in before.page[c].volumes :
              LET t == Append(s, Credential(u, f))
              IN  /\ Origin[f] = f
                  /\ ~\E i \in Credentials(s) : s[i].username = u /\ s[i].filename = f
                  /\ scst = t \/ scst = delete_by_username_and_filename(t, u, f)
                  /\ kernel \in ApplyRaised(t, Files, k)
      BY <2>2, <2>3, <2>9 DEF Adding, AddAt, WithdrawAt, At
    <3>2. Adds(c, u, f, s, k)
      BY <1>1, <3>1 DEF Adds
    <3>3. Atomic!scst_auth_credential_add(c, u, f)
      BY <1>1, <2>4, <2>5, <2>7, <3>2, AdmitStep
    <3> QED
      BY <1>1, <2>5, <2>7, <3>1, <3>3 DEF Atomic!Next, Atomic!Request
  <2> QED
    BY <2>6, <2>8, <2>9
<1> QED
  BY <1>2, <1>3, <1>4

\* The power is lost.
LEMMA PowerCase ==
    ASSUME QInv, PowerLoss
    PROVE  QInv' /\ (Atomic!Next \/ CutShort)
<1>1. /\ plugin' = "none" /\ page' = [c \in Clients |-> NoPage]
      /\ prog' = [c \in Clients |-> <<>>] /\ before' = NoRequest /\ scst' = scst
      /\ \E w \in [Arrays -> BOOLEAN] : writecache' \in Now!CachingOutcomes(scst, Files, w)
      /\ kernel' \in Applied(scst, Files, EmptyKernel) \cup ApplyRaised(scst, Files, EmptyKernel)
  BY DEF PowerLoss
<1>2. scst \in Seq(Section) /\ DistinctNames(scst) /\ DistinctLuns(scst)
  BY DEF QInv, Types
<1>3. kernel' \in Kernel
  <2>1. EmptyKernel \in Kernel
    BY DEF EmptyKernel, Kernel
  <2> QED
    BY <1>1, <1>2, <2>1, ApplyType
<1>4. writecache' \in [Arrays -> BOOLEAN]
  BY <1>1, CachingIsSetting
<1>5. DistinctNames(scst') /\ DistinctLuns(scst')
  BY <1>1, <1>2
<1>6. QInv'
  <2>1. Types'
    BY <1>1, <1>2, <1>3, <1>4 DEF Types
  <2> QED
    BY <1>1, <1>5, <2>1 DEF QInv
<1>7. /\ (Between.scst)' = scst' /\ (Between.kernel)' = kernel'
      /\ (Between.writecache)' = writecache' /\ (Between.page)' = page'
  BY <1>1, BetweenEnds, BetweenIdle
<1>8. CASE Between.scst = scst
  <2>1. Files = {f \in Files : ArrayOf[f] \in Arrays}
    BY RequestsAssumption
  <2>2. Atomic!EmptyKernel = EmptyKernel
    BY DEF Atomic!EmptyKernel, EmptyKernel
  <2>3. /\ \E w \in [Arrays -> BOOLEAN] : writecache' \in Atomic!CachingOutcomes(scst, Files, w)
        /\ kernel' \in Atomic!Applied(scst, Files, EmptyKernel) \cup Atomic!ApplyRaised(scst, Files, EmptyKernel)
    BY <1>1, SameKernel, SameOthers
  <2>4. Atomic!Reboot(Arrays)
    BY <1>1, <1>7, <1>8, <2>1, <2>2, <2>3 DEF Atomic!Reboot
  <2> QED
    BY <1>6, <2>4 DEF Atomic!Next, Atomic!Surroundings
<1>9. CASE Between.scst # scst
  <2>1. before # NoRequest
    BY <1>9 DEF Between, Snapshot
  <2>2. Between.scst = before.scst
    BY <2>1 DEF Between
  <2>3. Near(before.scst, scst)
    BY <2>1 DEF QInv, Handling
  <2>4. Near(Between.scst, scst')
    BY <1>1, <2>2, <2>3
  <2>5. CutShort
    BY <1>1, <1>7, <2>4 DEF CutShort
  <2> QED
    BY <1>6, <2>5
<1> QED
  BY <1>8, <1>9

-----------------------------------------------------------------------------
(***************************************************************************)
(* The theorems                                                            *)
(***************************************************************************)

\* Nothing is configured at first, and nobody is at work.
LEMMA InitCase ==
    ASSUME Init
    PROVE  QInv /\ Atomic!Init
<1>1. /\ scst = <<>> /\ kernel = EmptyKernel /\ writecache = [a \in Arrays |-> TRUE]
      /\ page = [c \in Clients |-> NoPage] /\ prog = [c \in Clients |-> <<>>]
      /\ before = NoRequest /\ plugin = "none"
  BY DEF Init, ServerInit
<1>2. EmptyKernel \in Kernel
  BY DEF EmptyKernel, Kernel
<1>3. Types
  BY <1>1, <1>2 DEF Types
<1>4. DistinctNames(scst) /\ DistinctLuns(scst)
  <2>1. Patterns(<<>>) = {}
    BY DEF Patterns
  <2>2. \A f \in Files : BoundTo(<<>>, f) = {}
    BY <2>1 DEF BoundTo
  <2> QED
    BY <1>1, <2>1, <2>2 DEF DistinctNames, DistinctLuns
<1>5. QInv
  BY <1>1, <1>3, <1>4 DEF QInv
<1>6. /\ Between.scst = scst /\ Between.kernel = kernel
      /\ Between.writecache = writecache /\ Between.page = page
  BY <1>1 DEF Between, Snapshot
<1>7. Atomic!EmptyKernel = EmptyKernel
  BY DEF Atomic!EmptyKernel, EmptyKernel
<1>8. Files \in {vs \in SUBSET Files : \A f \in vs : Origin[f] \in vs}
  BY RequestsAssumption
<1>9. Atomic!Init
  BY <1>1, <1>6, <1>7, <1>8 DEF Atomic!Init
<1> QED
  BY <1>5, <1>9

\* A step that changes nothing.
LEMMA StutterCase ==
    ASSUME QInv, UNCHANGED vars
    PROVE  QInv' /\ UNCHANGED Atomic!vars
<1>1. UNCHANGED <<store, prog, before>> /\ UNCHANGED <<serving, stage, plugin>>
  BY DEF vars, servervars
<1>2. plugin' \in Plugins \cup {"none"}
  BY <1>1 DEF QInv, Types
<1> QED
  BY <1>1, <1>2, ServerCase

\* Every step keeps the invariant, whatever runs the handlers.
LEMMA NextKeeps ==
    ASSUME QInv, [Next]_vars
    PROVE  QInv'
<1>1. CASE UNCHANGED vars
  BY <1>1, StutterCase
<1>2. CASE PowerLoss
  BY <1>2, PowerCase
<1>3. ASSUME NEW c \in Clients,
             Handler(c) \/ ((Start(c) \/ Release(c)) /\ UNCHANGED <<store, prog, before>>)
      PROVE  QInv'
  <2>1. CASE Begin(c)
    BY <2>1, BeginCase
  <2>2. CASE Effect(c)
    BY <2>2, EffectCase
  <2>3. CASE Ended(c)
    BY <2>3, EndedKeeps
  <2>4. CASE Answer(c) \/ ((Start(c) \/ Release(c)) /\ UNCHANGED <<store, prog, before>>)
    BY <2>4, IdleCase
  <2> QED
    BY <1>3, <2>1, <2>2, <2>3, <2>4 DEF Handler
<1> QED
  BY <1>1, <1>2, <1>3 DEF Next

\* Every step is one of module Iscsi, or none, or the power loss or the end
\* of a process in the middle of a request.
LEMMA NextRefines ==
    ASSUME QInv, [Next]_vars
    PROVE  [Atomic!Next \/ CutShort \/ GivenUp]_(Atomic!vars)
<1>1. CASE UNCHANGED vars
  BY <1>1, StutterCase
<1>2. CASE PowerLoss
  BY <1>2, PowerCase
<1>3. ASSUME NEW c \in Clients,
             Handler(c) \/ ((Start(c) \/ Release(c)) /\ UNCHANGED <<store, prog, before>>)
      PROVE  [Atomic!Next \/ GivenUp]_(Atomic!vars)
  <2>1. CASE Begin(c)
    BY <2>1, BeginCase
  <2>2. CASE Effect(c)
    BY <2>2, EffectCase
  <2>3. CASE Ended(c)
    BY <2>3, EndedCase
  <2>4. CASE Answer(c) \/ ((Start(c) \/ Release(c)) /\ UNCHANGED <<store, prog, before>>)
    BY <2>4, IdleCase
  <2> QED
    BY <1>3, <2>1, <2>2, <2>3, <2>4 DEF Handler
<1> QED
  BY <1>1, <1>2, <1>3 DEF Next

\* While a handler is at work it is the only one, and the store, the kernel
\* and what it has still to do are those of one of its positions.
THEOREM RequestsInvariant == Spec => []QInv
<1>1. Init => QInv
  BY InitCase
<1>2. QInv /\ [Next]_vars => QInv'
  BY NextKeeps
<1> QED
  BY <1>1, <1>2, PTL DEF Spec

\* Between any two commits, and so whenever the power can be lost or the
\* process of a handler be killed, no pattern is twice in the store and no
\* two patterns have one LUN on a volume - with the CGI and the Lua plugin.
THEOREM StoreStaysWellFormed == Spec => []WellFormedStore
<1>1. QInv => WellFormedStore
  BY DEF QInv, WellFormedStore
<1> QED
  BY <1>1, RequestsInvariant, PTL

\* Handlers are atomic: with their single commits, their faults and their
\* ends they implement module Iscsi, where each of them is one step, but for
\* a power loss in the middle of a request, and one the server gives up
\* (form too late, timeout of the Lua plugin), which cost one section.
THEOREM HandlersAreAtomic == Spec => AtomicHandlers
<1>1. Init => Atomic!Init
  BY InitCase
<1>2. QInv /\ [Next]_vars => [Atomic!Next \/ CutShort \/ GivenUp]_(Atomic!vars)
  BY NextRefines
<1> QED
  BY <1>1, <1>2, RequestsInvariant, PTL DEF Spec, AtomicHandlers
=============================================================================
