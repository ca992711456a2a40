--------------------------- MODULE LanguageServers ---------------------------
(* Completion in the editors (frontend/completion.py, lsp_completion.py) and  *)
(* the language servers behind it (lsp/servers.py, lsp/client.py): one        *)
(* process for each connection and choice, shared by the consoles, one        *)
(* document in it that every request overwrites, and answers that are late,   *)
(* missing or from a process that died.                                       *)
(*                                                                            *)
(* A text is named by the editor and the number of the request made for it.   *)
(* Threads are daemons: nothing waits for them.  A pipe that is full, which   *)
(* would block a writer, is left out.                                         *)
EXTENDS Integers, FiniteSets, Sequences

CONSTANTS
  Console,    \* editors
  Key,        \* connection and choice: what a server is started for
  MaxAsks,    \* bounds: requests made in all,
  MaxProcs    \* and processes started

\* What the constants are, assumed where the module is instantiated.
LspAssumption == MaxAsks \in Nat /\ MaxProcs \in Nat

Request == Console \X (1 .. MaxAsks)
Proc    == 1 .. MaxProcs
NoOne   == <<>>
Absent  == -1
Off     == 0

VARIABLES
  asked,    \* _seq: requests each editor has made
  popup,    \* the texts the items on show were computed for; {} when hidden
  req,      \* Request -> [pc, key, proc, id, got]
  server,   \* LspManager._servers: Absent, Off (None) or a process
  starting, \* the request that holds the manager's lock over a start
  proc,     \* Proc -> [of, st, doc, inbox, outbox, lock, ids, pending]
  closing   \* shutdown_all has run

vars == <<asked, popup, req, server, starting, proc, closing>>

Idle == [pc |-> "none", key |-> NoOne, proc |-> 0, id |-> 0, got |-> {}]
Unborn == [of |-> NoOne, st |-> "unborn", doc |-> NoOne, inbox |-> <<>>,
           outbox |-> <<>>, lock |-> NoOne, ids |-> 0, pending |-> {}]

Init ==
  /\ asked = [c \in Console |-> 0] /\ popup = [c \in Console |-> {}]
  /\ req = [r \in Request |-> Idle]
  /\ server = [k \in Key |-> Absent] /\ starting = NoOne
  /\ proc = [p \in Proc |-> Unborn] /\ closing = FALSE

Born == {p \in Proc : proc[p].st # "unborn"}

-----------------------------------------------------------------------------
(* The editor.                                                             *)

\* _refresh with a word long enough, or Ctrl+Space: a worker for the text as
\* it is now.  What is on show stays until the answer comes.
Ask(c, k) ==
  /\ Cardinality({r \in Request : req[r] # Idle}) < MaxAsks
  /\ asked' = [asked EXCEPT ![c] = @ + 1]
  /\ req' = [req EXCEPT ![<<c, asked[c] + 1>>] = [Idle EXCEPT !.pc = "lookup", !.key = k]]
  /\ UNCHANGED <<popup, server, starting, proc, closing>>

\* A shorter word, Escape, an arrow, an accepted item, the focus elsewhere.
Hide(c) ==
  /\ popup[c] # {} /\ popup' = [popup EXCEPT ![c] = {}]
  /\ UNCHANGED <<asked, req, server, starting, proc, closing>>

\* done(): the items of a superseded request are dropped.
Show(r) ==
  /\ req[r].pc = "posted"
  /\ popup' = IF r[2] = asked[r[1]] THEN [popup EXCEPT ![r[1]] = req[r].got] ELSE popup
  /\ req' = [req EXCEPT ![r] = [Idle EXCEPT !.pc = "over"]]
  /\ UNCHANGED <<asked, server, starting, proc, closing>>

-----------------------------------------------------------------------------
(* The manager: server_for, under its lock.                                *)

Posted(r, items) == [req EXCEPT ![r] = [Idle EXCEPT !.pc = "posted", !.got = items]]

\* A server that is known is taken, whatever its process does next; one that
\* died is off from now on.
Lookup(r) ==
  LET k == req[r].key
      s == server[k]
  IN  /\ req[r].pc = "lookup" /\ starting = NoOne /\ s # Absent
      /\ IF s # Off /\ proc[s].st = "up"
         THEN /\ req' = [req EXCEPT ![r] = [req[r] EXCEPT !.pc = "wait", !.proc = s]]
              /\ UNCHANGED server
         ELSE /\ req' = Posted(r, {}) /\ server' = [server EXCEPT ![k] = Off]
      /\ UNCHANGED <<asked, popup, starting, proc, closing>>

\* _start, with the manager's lock held: a process is started, and asked to
\* initialize; or there is no command for it.
Start(r, p) ==
  LET k == req[r].key
  IN  /\ req[r].pc = "lookup" /\ starting = NoOne /\ server[k] = Absent
      /\ p \notin Born /\ \A q \in Proc : q < p => q \in Born
      /\ starting' = r
      /\ proc' = [proc EXCEPT ![p] = [proc[p] EXCEPT !.of = k, !.st = "up"]]
      /\ req' = [req EXCEPT ![r] = [req[r] EXCEPT !.pc = "starting", !.proc = p]]
      /\ UNCHANGED <<asked, popup, server, closing>>

NoCommand(r) ==
  /\ req[r].pc = "lookup" /\ starting = NoOne /\ server[req[r].key] = Absent
  /\ req' = Posted(r, {}) /\ server' = [server EXCEPT ![req[r].key] = Off]
  /\ UNCHANGED <<asked, popup, starting, proc, closing>>

Started(r) ==
  /\ req[r].pc = "starting" /\ proc[req[r].proc].st = "up"
  /\ server' = [server EXCEPT ![req[r].key] = req[r].proc]
  /\ req' = [req EXCEPT ![r].pc = "wait"] /\ starting' = NoOne
  /\ UNCHANGED <<asked, popup, proc, closing>>

\* It died, or did not answer in time: then its process is left running.
StartFails_Retried(r) ==
  /\ req[r].pc = "starting"
  /\ req' = Posted(r, {}) /\ starting' = NoOne
  /\ UNCHANGED <<asked, popup, server, proc, closing>>

StartFails(r) ==
  /\ req[r].pc = "starting"
  /\ server' = [server EXCEPT ![req[r].key] = Off]
  /\ req' = Posted(r, {}) /\ starting' = NoOne
  /\ UNCHANGED <<asked, popup, proc, closing>>

\* shutdown_all, at exit: the servers it knows end.
ShutDown ==
  /\ starting = NoOne /\ ~ closing /\ closing' = TRUE
  /\ server' = [k \in Key |-> Absent]
  /\ proc' = [p \in Proc |-> IF \E k \in Key : server[k] = p
                             THEN [proc[p] EXCEPT !.st = "dead"] ELSE proc[p]]
  /\ UNCHANGED <<asked, popup, req, starting>>

-----------------------------------------------------------------------------
(* A request: the document is sent and the question asked under the        *)
(* server's lock, which is held until the answer or the timeout.           *)

Alive(p) == proc[p].st = "up"

TakeLock(r) ==
  LET p == req[r].proc
  IN  /\ req[r].pc = "wait" /\ proc[p].lock = NoOne
      /\ proc' = [proc EXCEPT ![p].lock = r]
      /\ req' = [req EXCEPT ![r].pc = "sync"]
      /\ UNCHANGED <<asked, popup, server, starting, closing>>

Sync_Unlocked(r) ==
  LET p == req[r].proc
  IN  /\ req[r].pc = "sync" /\ Alive(p)
      /\ proc' = [proc EXCEPT ![p] =
                    [proc[p] EXCEPT !.inbox = Append(@, [op |-> "text", text |-> r]),
                                    !.lock = NoOne]]
      /\ req' = [req EXCEPT ![r].pc = "send"]
      /\ UNCHANGED <<asked, popup, server, starting, closing>>

Sync(r) ==
  LET p == req[r].proc
  IN  /\ req[r].pc = "sync" /\ Alive(p)
      /\ proc' = [proc EXCEPT ![p].inbox = Append(@, [op |-> "text", text |-> r])]
      /\ req' = [req EXCEPT ![r].pc = "send"]
      /\ UNCHANGED <<asked, popup, server, starting, closing>>

Send(r) ==
  LET p == req[r].proc
      n == proc[p].ids + 1
  IN  /\ req[r].pc = "send" /\ Alive(p)
      /\ proc' = [proc EXCEPT ![p] =
                    [proc[p] EXCEPT !.inbox = Append(@, [op |-> "ask", id |-> n]),
                                    !.ids = n, !.pending = @ \cup {n}]]
      /\ req' = [req EXCEPT ![r] = [req[r] EXCEPT !.pc = "answer", !.id = n]]
      /\ UNCHANGED <<asked, popup, server, starting, closing>>

\* The worker gives up: its message was written, or it waited, in vain.
GiveUp(r) ==
  LET p == req[r].proc
  IN  /\ \/ req[r].pc \in {"sync", "send"} /\ ~ Alive(p)
         \/ req[r].pc = "answer"
      /\ proc' = [proc EXCEPT ![p] =
                    [proc[p] EXCEPT !.lock = NoOne, !.pending = @ \ {req[r].id}]]
      /\ req' = Posted(r, {})
      /\ UNCHANGED <<asked, popup, server, starting, closing>>

\* _dispatch, on the reader's thread: only an answer somebody waits for.
Read(p) ==
  /\ proc[p].outbox # <<>>
  /\ LET m == Head(proc[p].outbox)
         mine == {r \in Request : /\ req[r].pc = "answer" /\ req[r].proc = p
                                  /\ req[r].id = m.id /\ m.id \in proc[p].pending}
     IN  /\ proc' = [proc EXCEPT ![p] =
                       [proc[p] EXCEPT !.outbox = Tail(@), !.pending = @ \ {m.id},
                                       !.lock = IF mine = {} THEN @ ELSE NoOne]]
         /\ req' = [r \in Request |-> IF r \in mine THEN Posted(r, m.items)[r] ELSE req[r]]
  /\ UNCHANGED <<asked, popup, server, starting, closing>>

-----------------------------------------------------------------------------
(* The process: it takes what it is sent in order, answers from the        *)
(* document it has then, with items, none or an error, and may die.        *)

Serve(p) ==
  /\ Alive(p) /\ proc[p].inbox # <<>>
  /\ LET m == Head(proc[p].inbox)
     IN  IF m.op = "text"
         THEN proc' = [proc EXCEPT ![p] =
                         [proc[p] EXCEPT !.inbox = Tail(@), !.doc = m.text]]
         ELSE \E items \in {{}, {proc[p].doc}} :
                proc' = [proc EXCEPT ![p] =
                  [proc[p] EXCEPT !.inbox = Tail(@),
                                  !.outbox = Append(@, [id |-> m.id, items |-> items])]]
  /\ UNCHANGED <<asked, popup, req, server, starting, closing>>

Die(p) ==
  /\ Alive(p)
  /\ \E n \in 0 .. Len(proc[p].outbox) :  \* what it wrote so far may be lost
       proc' = [proc EXCEPT ![p] =
                  [proc[p] EXCEPT !.st = "dead", !.doc = NoOne, !.inbox = <<>>,
                                  !.outbox = SubSeq(@, 1, n)]]
  /\ UNCHANGED <<asked, popup, req, server, starting, closing>>

-----------------------------------------------------------------------------
Next ==
  \/ \E c \in Console : Hide(c) \/ \E k \in Key : Ask(c, k)
  \/ \E r \in Request :
       \/ Show(r) \/ Lookup(r) \/ NoCommand(r) \/ Started(r) \/ StartFails(r)
       \/ TakeLock(r) \/ Sync(r) \/ Send(r) \/ GiveUp(r)
       \/ \E p \in Proc : Start(r, p)
  \/ \E p \in Proc : Read(p) \/ Serve(p) \/ Die(p)
  \/ ShutDown

Spec == Init /\ [][Next]_vars

-----------------------------------------------------------------------------
TypeOK ==
  /\ asked \in [Console -> 0 .. MaxAsks] /\ popup \in [Console -> SUBSET Request]
  /\ DOMAIN req = Request /\ closing \in BOOLEAN
  /\ server \in [Key -> {Absent, Off} \cup Proc]
  /\ starting \in Request \cup {NoOne} /\ DOMAIN proc = Proc

\* "discards results of superseded requests" (_seq): what an editor comes to
\* offer was computed for the text of its own latest request, however many
\* editors share the server's one document, and however late, out of turn or
\* after a timeout the answers come.
OffersAreForTheText ==
  [][\A c \in Console :
       popup'[c] # popup[c] => popup'[c] \subseteq {<<c, asked[c]>>}]_vars

\* "A server that dies stays off until the app restarts": with any number of
\* workers asking at once, no connection and choice is ever given a second
\* process while the application runs.
NeverRestarted ==
  ~ closing => \A p, q \in Born : proc[p].of = proc[q].of => p = q
=============================================================================
