---------------------------- MODULE CatalogCache ----------------------------
(***************************************************************************)
(* The catalog cache of one connector (backend/db/base.py) and the         *)
(* validation built on it.                                                 *)
(*                                                                         *)
(* Worker threads (Reader) validate names: they look a listing up in the   *)
(* cache, load it from the server when it is cold, and reload it once      *)
(* before they reject a name.  Worker threads (Writer) run statements      *)
(* through Connector.execute(), which drops the whole cache after a        *)
(* statement that may change the catalog.  A listing ("the tables", "the   *)
(* columns of t") is a set of names; what the server answers depends on    *)
(* the search path of the session.  The cache lock is held for one lookup, *)
(* one store or one clear, the connector lock for one statement: each is   *)
(* one action, and the threads interleave between them.                    *)
(*                                                                         *)
(* The app only ever calls set_search_path with the schema the connector   *)
(* was created for, so the scope part of a cache key is constant and a     *)
(* key is a listing.                                                       *)
(***************************************************************************)
EXTENDS FiniteSets

CONSTANTS
  Name,          \* names of relations or columns
  Listing,       \* the catalog listings that are cached
  Scope,         \* schemas of the database
  Home,          \* the schema the connector was created for
  Reader,        \* threads validating names
  Writer         \* threads running statements

ASSUME CatalogAssumption == Home \in Scope

VARIABLES
  objects,    \* what this session would list: [Scope -> [Listing -> SUBSET Name]]
  path,       \* the session's search path
  undo,       \* what ROLLBACK restores: {} or {one [objects, path] record}
  open,       \* the session is open
  cached,     \* keys present in CatalogCache._entries
  entries,    \* their values
  rpc,        \* where each reader is
  listing,    \* the listing it validates against
  used,       \* the names it validates
  reloaded,   \* it has already dropped and asked again
  names,      \* the listing it holds in a local variable
  verdict,    \* outcome of its last validation
  wpc         \* where each writer is

\* History: read by the properties only.
VARIABLES
  vouched,    \* <<listing, name>> pairs the server has ever listed
  steady,     \* readers all of whose names existed since they started
  overtaken,  \* readers whose loaded listing predates the last clear
  raced,      \* readers whose reload found a key another thread put back
  crossed,    \* readers whose loaded listing predates an unheard change
  late,       \* keys stored by an overtaken reader
  unheard     \* keys changed since they were loaded by another session or
              \* by a ROLLBACK, which keeps the cache

server == <<objects, path, undo, open>>
cache  == <<cached, entries, late, unheard>>
reader == <<rpc, listing, used, reloaded, names, verdict>>
flags  == <<vouched, steady, overtaken, crossed, raced>>
vars   == <<server, cache, reader, wpc, flags>>

ReaderPC == {"idle", "lookup", "load", "store", "decide", "drop"}
WriterPC == {"idle", "note", "notepin", "pin"}
Objects  == [Scope -> [Listing -> SUBSET Name]]
Nothing  == [l \in Listing |-> {}]

Visible(l) == objects[path][l]

TypeOK ==
  /\ objects \in Objects
  /\ path \in Scope
  /\ undo \subseteq [objects : Objects, path : Scope]
  /\ open \in BOOLEAN
  /\ cached \subseteq Listing
  /\ entries \in [Listing -> SUBSET Name]
  /\ rpc \in [Reader -> ReaderPC]
  /\ listing \in [Reader -> Listing]
  /\ used \in [Reader -> SUBSET Name]
  /\ reloaded \in [Reader -> BOOLEAN]
  /\ names \in [Reader -> SUBSET Name]
  /\ verdict \in [Reader -> {"none", "accepted", "rejected", "error"}]
  /\ wpc \in [Writer -> WriterPC]
  /\ vouched \subseteq Listing \X Name
  /\ steady \subseteq Reader
  /\ overtaken \subseteq Reader
  /\ crossed \subseteq Reader
  /\ raced \subseteq Reader
  /\ late \subseteq Listing
  /\ unheard \subseteq Listing

Init ==
  /\ objects \in Objects
  /\ path = Home
  /\ undo = {}
  /\ open = TRUE
  /\ cached = {}
  /\ entries = Nothing
  /\ rpc = [r \in Reader |-> "idle"]
  /\ listing \in {[r \in Reader |-> l] : l \in Listing}
  /\ used = [r \in Reader |-> {}]
  /\ reloaded = [r \in Reader |-> FALSE]
  /\ names = [r \in Reader |-> {}]
  /\ verdict = [r \in Reader |-> "none"]
  /\ wpc = [w \in Writer |-> "idle"]
  /\ vouched = {}
  /\ steady = {}
  /\ overtaken = {}
  /\ crossed = {}
  /\ raced = {}
  /\ late = {}
  /\ unheard = {}

-----------------------------------------------------------------------------
(***************************************************************************)
(* Readers: _assert_known_table and _assert_known_columns.                 *)
(***************************************************************************)

\* A validation begins; the cache key is worked out here.
StartCheck(r, l, u) ==
  /\ rpc[r] = "idle"
  /\ u # {}
  /\ rpc' = [rpc EXCEPT ![r] = "lookup"]
  /\ listing' = [listing EXCEPT ![r] = l]
  /\ used' = [used EXCEPT ![r] = u]
  /\ reloaded' = [reloaded EXCEPT ![r] = FALSE]
  /\ names' = [names EXCEPT ![r] = {}]
  /\ verdict' = [verdict EXCEPT ![r] = "none"]
  /\ steady' = IF u \subseteq Visible(l) THEN steady \cup {r} ELSE steady \ {r}
  /\ raced' = raced \ {r}
  /\ UNCHANGED <<server, cache, wpc, vouched, overtaken, crossed>>

\* CatalogCache.get, first half: under the cache lock, a hit returns.
Lookup(r) ==
  /\ rpc[r] = "lookup"
  /\ \/ /\ listing[r] \in cached
        /\ rpc' = [rpc EXCEPT ![r] = "decide"]
        /\ names' = [names EXCEPT ![r] = entries[listing[r]]]
        /\ raced' = IF reloaded[r] THEN raced \cup {r} ELSE raced
     \/ /\ listing[r] \notin cached
        /\ rpc' = [rpc EXCEPT ![r] = "load"]
        /\ UNCHANGED <<names, raced>>
  /\ UNCHANGED <<server, cache, listing, used, reloaded, verdict, wpc,
                 vouched, steady, overtaken, crossed>>

\* load(): one catalog query, outside the cache lock.
Load(r) ==
  /\ rpc[r] = "load"
  /\ open
  /\ rpc' = [rpc EXCEPT ![r] = "store"]
  /\ names' = [names EXCEPT ![r] = Visible(listing[r])]
  /\ vouched' = vouched \cup ({listing[r]} \X Visible(listing[r]))
  /\ overtaken' = overtaken \ {r}
  /\ crossed' = crossed \ {r}
  /\ UNCHANGED <<server, cache, listing, used, reloaded, verdict, wpc, steady,
                 raced>>

\* The query fails, or the connector was closed: the error propagates.
LoadFails(r) ==
  /\ rpc[r] = "load"
  /\ rpc' = [rpc EXCEPT ![r] = "idle"]
  /\ verdict' = [verdict EXCEPT ![r] = "error"]
  /\ UNCHANGED <<server, cache, listing, used, reloaded, names, wpc, flags>>

\* CatalogCache.get, second half: under the lock again, unconditionally.
Store(r) ==
  /\ rpc[r] = "store"
  /\ rpc' = [rpc EXCEPT ![r] = "decide"]
  /\ cached' = cached \cup {listing[r]}
  /\ entries' = [entries EXCEPT ![listing[r]] = names[r]]
  /\ late' = IF r \in overtaken THEN late \cup {listing[r]}
                                ELSE late \ {listing[r]}
  /\ unheard' = IF r \in crossed THEN unheard \cup {listing[r]}
                                 ELSE unheard \ {listing[r]}
  /\ overtaken' = overtaken \ {r}
  /\ crossed' = crossed \ {r}
  /\ UNCHANGED <<server, listing, used, reloaded, names, verdict, wpc,
                 vouched, steady, raced>>

\* Mutant: a name the cache does not know is taken on trust after the reload.
Decide_Trusting(r) ==
  /\ rpc[r] = "decide"
  /\ IF used[r] \subseteq names[r] \/ reloaded[r]
       THEN /\ rpc' = [rpc EXCEPT ![r] = "idle"]
            /\ verdict' = [verdict EXCEPT ![r] = "accepted"]
            /\ UNCHANGED reloaded
       ELSE /\ rpc' = [rpc EXCEPT ![r] = "drop"]
            /\ reloaded' = [reloaded EXCEPT ![r] = TRUE]
            /\ UNCHANGED verdict
  /\ names' = [names EXCEPT ![r] = {}]
  /\ UNCHANGED <<server, cache, listing, used, wpc, flags>>

\* Mutant: a miss rejects at once, from whatever listing is at hand.
Decide_NoReload(r) ==
  /\ rpc[r] = "decide"
  /\ rpc' = [rpc EXCEPT ![r] = "idle"]
  /\ verdict' = [verdict EXCEPT ![r] =
                   IF used[r] \subseteq names[r] THEN "accepted" ELSE "rejected"]
  /\ names' = [names EXCEPT ![r] = {}]
  /\ UNCHANGED <<server, cache, listing, used, reloaded, wpc, flags>>

\* Known: accept.  Unknown: reload once, and reject only after that.
Decide(r) ==
  /\ rpc[r] = "decide"
  /\ \/ /\ used[r] \subseteq names[r]
        /\ rpc' = [rpc EXCEPT ![r] = "idle"]
        /\ verdict' = [verdict EXCEPT ![r] = "accepted"]
        /\ UNCHANGED reloaded
     \/ /\ ~ used[r] \subseteq names[r]
        /\ ~ reloaded[r]
        /\ rpc' = [rpc EXCEPT ![r] = "drop"]
        /\ reloaded' = [reloaded EXCEPT ![r] = TRUE]
        /\ UNCHANGED verdict
     \/ /\ ~ used[r] \subseteq names[r]
        /\ reloaded[r]
        /\ rpc' = [rpc EXCEPT ![r] = "idle"]
        /\ verdict' = [verdict EXCEPT ![r] = "rejected"]
        /\ UNCHANGED reloaded
  /\ names' = [names EXCEPT ![r] = {}]
  /\ UNCHANGED <<server, cache, listing, used, wpc, flags>>

\* catalog_tables(reload=True), catalog_columns(reload=True): drop, then get.
DropKey(r) ==
  /\ rpc[r] = "drop"
  /\ rpc' = [rpc EXCEPT ![r] = "lookup"]
  /\ cached' = cached \ {listing[r]}
  /\ entries' = [entries EXCEPT ![listing[r]] = {}]
  /\ late' = late \ {listing[r]}
  /\ unheard' = unheard \ {listing[r]}
  /\ UNCHANGED <<server, listing, used, reloaded, names, verdict, wpc, flags>>

ReaderStep(r) ==
  \/ \E l \in Listing, u \in SUBSET Name : StartCheck(r, l, u)
  \/ Lookup(r) \/ Load(r) \/ LoadFails(r) \/ Store(r) \/ Decide(r) \/ DropKey(r)

-----------------------------------------------------------------------------
(***************************************************************************)
(* Writers: execute(), set_search_path() and the sidebar's Refresh.        *)
(***************************************************************************)

\* Mutant: the dictionary is replaced by an empty one the keys are not in.
Clear_Rebinds ==
  /\ cached' = {}
  /\ entries' = [l \in {} |-> {}]
  /\ late' = {}
  /\ unheard' = {}
  /\ overtaken' = overtaken \cup {r \in Reader : rpc[r] = "store"}

\* invalidate_catalog().
Clear ==
  /\ cached' = {}
  /\ entries' = Nothing
  /\ late' = {}
  /\ unheard' = {}
  /\ overtaken' = overtaken \cup {r \in Reader : rpc[r] = "store"}

\* Who still has every name it is validating, after a change at the server.
Observe ==
  steady' = {r \in steady :
               rpc[r] # "idle" => used[r] \subseteq objects'[path'][listing[r]]}

\* A catalog statement reached the server (S is what it left, a failed
\* one may leave anything); execute() has not come to its finally yet.
RunCatalogStatement(w, s, l, S) ==
  /\ wpc[w] = "idle"
  /\ open
  /\ objects' = [objects EXCEPT ![s][l] = S]
  /\ wpc' = [wpc EXCEPT ![w] = "note"]
  /\ UNCHANGED <<path, undo, open, cache, reader, vouched, overtaken,
                 crossed, raced>>
  /\ Observe

\* SET search_path, typed in the console or (pin) sent by set_search_path.
RunSetPath(w, s, pin) ==
  /\ wpc[w] = "idle"
  /\ open
  /\ pin => s = Home
  /\ path' = s
  /\ wpc' = [wpc EXCEPT ![w] = IF pin THEN "notepin" ELSE "note"]
  /\ UNCHANGED <<objects, undo, open, cache, reader, vouched, overtaken,
                 crossed, raced>>
  /\ Observe

\* Mutant: a catalog statement is taken for a row change.
NoteStatement_Missed(w) ==
  /\ wpc[w] \in {"note", "notepin"}
  /\ wpc' = [wpc EXCEPT ![w] = IF @ = "notepin" THEN "pin" ELSE "idle"]
  /\ UNCHANGED <<server, cache, reader, flags>>

\* execute()'s finally: _note_statement, where changes_catalog(sql) holds.
NoteStatement(w) ==
  /\ wpc[w] \in {"note", "notepin"}
  /\ wpc' = [wpc EXCEPT ![w] = IF @ = "notepin" THEN "pin" ELSE "idle"]
  /\ Clear
  /\ UNCHANGED <<server, reader, vouched, steady, crossed, raced>>

\* set_search_path after its execute(): self.schema, then a second clear.
FinishSetPath(w) ==
  /\ wpc[w] = "pin"
  /\ wpc' = [wpc EXCEPT ![w] = "idle"]
  /\ Clear
  /\ UNCHANGED <<server, reader, vouched, steady, crossed, raced>>

\* Transaction control keeps the cache (changes_catalog is FALSE for it).
Begin(w) ==
  /\ wpc[w] = "idle"
  /\ open
  /\ undo = {}
  /\ undo' = {[objects |-> objects, path |-> path]}
  /\ UNCHANGED <<objects, path, open, cache, reader, wpc, flags>>

Commit(w) ==
  /\ wpc[w] = "idle"
  /\ open
  /\ undo # {}
  /\ undo' = {}
  /\ UNCHANGED <<objects, path, open, cache, reader, wpc, flags>>

Rollback(w) ==
  /\ wpc[w] = "idle"
  /\ open
  /\ \E before \in undo :
       /\ objects' = before.objects
       /\ path' = before.path
  /\ undo' = {}
  /\ crossed' = crossed \cup {r \in Reader : rpc[r] = "store"}
  /\ unheard' = unheard \cup cached
  /\ UNCHANGED <<open, cached, entries, late, reader, wpc, vouched, overtaken,
                 raced>>
  /\ Observe

\* Refresh in the sidebar: the next worker that connects drops the cache.
Refresh(w) ==
  /\ wpc[w] = "idle"
  /\ Clear
  /\ UNCHANGED <<server, reader, wpc, vouched, steady, crossed, raced>>

WriterStep(w) ==
  \/ \E s \in Scope, l \in Listing, S \in SUBSET Name :
       RunCatalogStatement(w, s, l, S)
  \/ \E s \in Scope, pin \in BOOLEAN : RunSetPath(w, s, pin)
  \/ NoteStatement(w) \/ FinishSetPath(w)
  \/ Begin(w) \/ Commit(w) \/ Rollback(w) \/ Refresh(w)

-----------------------------------------------------------------------------
(***************************************************************************)
(* The window closes the connector; another session changes the schema.    *)
(***************************************************************************)

\* close() drops the cache before the session; an open transaction is lost.
Close ==
  /\ open
  /\ open' = FALSE
  /\ undo' = {}
  /\ \/ undo = {} /\ UNCHANGED <<objects, path>>
     \/ \E before \in undo :
          objects' = before.objects /\ path' = before.path
  /\ Clear
  /\ UNCHANGED <<reader, wpc, vouched, crossed, raced>>
  /\ Observe

\* Nobody in the app observes this one.
ForeignChange(s, l, n) ==
  LET toggle(o) == [o EXCEPT ![s][l] =
                      IF n \in objects[s][l] THEN @ \ {n} ELSE @ \cup {n}]
  IN /\ objects' = toggle(objects)
     /\ undo' = {[objects |-> toggle(before.objects), path |-> before.path] :
                   before \in undo}
     /\ crossed' = crossed \cup
                     {r \in Reader : rpc[r] = "store" /\ listing[r] = l}
     /\ unheard' = unheard \cup {l}
     /\ UNCHANGED <<path, open, cached, entries, late, reader, wpc, vouched,
                    overtaken, raced>>
     /\ Observe

Next ==
  \/ \E r \in Reader : ReaderStep(r)
  \/ \E w \in Writer : WriterStep(w)
  \/ Close
  \/ \E s \in Scope, l \in Listing, n \in Name : ForeignChange(s, l, n)

Spec == Init /\ [][Next]_vars

-----------------------------------------------------------------------------
(***************************************************************************)
(* Properties.                                                             *)
(***************************************************************************)

\* Only identifiers the catalog vouches for reach the SQL text: whatever a
\* validation accepts was listed by the server during this session, however
\* stale the cache and however the threads interleave.
AcceptedWasVouched ==
  \A r \in Reader : verdict[r] = "accepted" =>
    \A n \in used[r] : <<listing[r], n>> \in vouched

\* A name that existed for as long as a validation ran is refused by it only
\* if another thread put an older listing back between the drop and the
\* lookup of its reload.
RealNameNotRejected ==
  \A r \in Reader : verdict[r] = "rejected" => r \notin steady \/ r \in raced

\* While no statement is between the server and its finally, an entry that
\* was loaded since the last clear says what the server says, unless
\* another session changed it or a ROLLBACK took it back.
EntryIsCurrent ==
  (\A w \in Writer : wpc[w] \notin {"note", "notepin"}) =>
    \A l \in cached \ (late \cup unheard) : open => entries[l] = Visible(l)
=============================================================================
