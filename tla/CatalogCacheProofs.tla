-------------------------- MODULE CatalogCacheProofs --------------------------
(* Theorems about CatalogCache, for every set of threads, names and          *)
(* listings.                                                                 *)
EXTENDS CatalogCache, TLAPS


\* Every variable keeps its type: in particular a reader never holds a
\* listing of anything but names, whatever the threads do to the cache.
THEOREM TypeCorrect == Spec => []TypeOK
<1>1. Init => TypeOK
  BY CatalogAssumption DEF Init, TypeOK, Nothing, ReaderPC, WriterPC, Objects
<1>2. TypeOK /\ UNCHANGED vars => TypeOK'
  BY DEF TypeOK, vars, server, cache, reader, flags
<1>3. TypeOK /\ Next => TypeOK'
  <2> SUFFICES ASSUME TypeOK, Next PROVE TypeOK'
    OBVIOUS
  <2> USE CatalogAssumption DEF TypeOK, server, cache, reader, flags
  <2>1. ASSUME NEW r \in Reader, ReaderStep(r) PROVE TypeOK'
    <3>1. ASSUME NEW l \in Listing, NEW u \in SUBSET Name, StartCheck(r, l, u)
          PROVE TypeOK'
      BY <3>1 DEF StartCheck, ReaderPC
    <3>2. ASSUME Lookup(r) PROVE TypeOK'
      BY <3>2 DEF Lookup, ReaderPC
    <3>3. ASSUME Load(r) PROVE TypeOK'
      <4>1. Visible(listing[r]) \in SUBSET Name
        BY DEF Visible, Objects
      <4>2. QED
        BY <3>3, <4>1 DEF Load, ReaderPC
    <3>4. ASSUME LoadFails(r) PROVE TypeOK'
      BY <3>4 DEF LoadFails, ReaderPC
    <3>5. ASSUME Store(r) PROVE TypeOK'
      BY <3>5 DEF Store, ReaderPC
    <3>6. ASSUME Decide(r) PROVE TypeOK'
      BY <3>6 DEF Decide, ReaderPC
    <3>7. ASSUME DropKey(r) PROVE TypeOK'
      BY <3>7 DEF DropKey, ReaderPC
    <3>8. QED
      BY <2>1, <3>1, <3>2, <3>3, <3>4, <3>5, <3>6, <3>7 DEF ReaderStep
  <2>2. ASSUME NEW w \in Writer, WriterStep(w) PROVE TypeOK'
    <3>1. ASSUME NEW s \in Scope, NEW l \in Listing, NEW S \in SUBSET Name,
                 RunCatalogStatement(w, s, l, S)
          PROVE TypeOK'
      BY <3>1 DEF RunCatalogStatement, Observe, WriterPC, Objects
    <3>2. ASSUME NEW s \in Scope, NEW pin \in BOOLEAN, RunSetPath(w, s, pin)
          PROVE TypeOK'
      BY <3>2 DEF RunSetPath, Observe, WriterPC
    <3>3. ASSUME NoteStatement(w) PROVE TypeOK'
      BY <3>3 DEF NoteStatement, Clear, Nothing, WriterPC
    <3>4. ASSUME FinishSetPath(w) PROVE TypeOK'
      BY <3>4 DEF FinishSetPath, Clear, Nothing, WriterPC
    <3>5. ASSUME Begin(w) PROVE TypeOK'
      BY <3>5 DEF Begin
    <3>6. ASSUME Commit(w) PROVE TypeOK'
      BY <3>6 DEF Commit
    <3>7. ASSUME Rollback(w) PROVE TypeOK'
      BY <3>7 DEF Rollback, Observe
    <3>8. ASSUME Refresh(w) PROVE TypeOK'
      BY <3>8 DEF Refresh, Clear, Nothing
    <3>9. QED
      BY <2>2, <3>1, <3>2, <3>3, <3>4, <3>5, <3>6, <3>7, <3>8 DEF WriterStep
  <2>3. ASSUME Close PROVE TypeOK'
    BY <2>3 DEF Close, Clear, Nothing, Observe
  <2>4. ASSUME NEW s \in Scope, NEW l \in Listing, NEW n \in Name,
               ForeignChange(s, l, n)
        PROVE TypeOK'
    <3> DEFINE toggle(o) == [o EXCEPT ![s][l] =
                      IF n \in objects[s][l] THEN @ \ {n} ELSE @ \cup {n}]
    <3>1. \A o \in Objects : toggle(o) \in Objects
      BY DEF Objects
    <3>2. undo' = {[objects |-> toggle(before.objects),
                   path |-> before.path] : before \in undo}
      BY <2>4 DEF ForeignChange
    <3>3. undo' \subseteq [objects : Objects, path : Scope]
      BY <3>1, <3>2
    <3>4. objects' \in Objects
      BY <2>4, <3>1 DEF ForeignChange
    <3> HIDE DEF toggle
    <3>5. QED
      BY <2>4, <3>3, <3>4 DEF ForeignChange, Observe
  <2> QED
    BY <2>1, <2>2, <2>3, <2>4 DEF Next
<1>4. TypeOK /\ [Next]_vars => TypeOK'
  BY <1>2, <1>3
<1> QED
  BY <1>1, <1>4, PTL DEF Spec

-----------------------------------------------------------------------------
\* What makes AcceptedWasVouched inductive: every name in the cache, and
\* every name in a listing a reader is about to store or to decide on, was
\* listed by the server.
VouchedInv ==
  /\ \A l \in Listing : \A n \in entries[l] : <<l, n>> \in vouched
  /\ \A r \in Reader : rpc[r] \in {"store", "decide"} =>
       \A n \in names[r] : <<listing[r], n>> \in vouched
  /\ AcceptedWasVouched

\* The server's answers are only ever added to.
LEMMA VouchedStep ==
  ASSUME TypeOK, VouchedInv, [Next]_vars
  PROVE  VouchedInv'
<1> USE DEF TypeOK, VouchedInv, AcceptedWasVouched, server, cache, reader, flags
<1>1. ASSUME NEW r \in Reader, ReaderStep(r) PROVE VouchedInv'
  <2>1. ASSUME NEW l \in Listing, NEW u \in SUBSET Name, StartCheck(r, l, u)
        PROVE VouchedInv'
    BY <2>1 DEF StartCheck
  <2>2. ASSUME Lookup(r) PROVE VouchedInv'
    BY <2>2 DEF Lookup
  <2>3. ASSUME Load(r) PROVE VouchedInv'
    BY <2>3 DEF Load
  <2>4. ASSUME LoadFails(r) PROVE VouchedInv'
    BY <2>4 DEF LoadFails
  <2>5. ASSUME Store(r) PROVE VouchedInv'
    BY <2>5 DEF Store
  <2>6. ASSUME Decide(r) PROVE VouchedInv'
    BY <2>6 DEF Decide
  <2>7. ASSUME DropKey(r) PROVE VouchedInv'
    BY <2>7 DEF DropKey
  <2>8. QED
    BY <1>1, <2>1, <2>2, <2>3, <2>4, <2>5, <2>6, <2>7 DEF ReaderStep
<1>2. ASSUME NEW w \in Writer, WriterStep(w) PROVE VouchedInv'
  BY <1>2 DEF WriterStep, RunCatalogStatement, RunSetPath, NoteStatement,
              FinishSetPath, Begin, Commit, Rollback, Refresh, Clear, Nothing
<1>3. ASSUME Close PROVE VouchedInv'
  BY <1>3 DEF Close, Clear, Nothing
<1>4. ASSUME NEW s \in Scope, NEW l \in Listing, NEW n \in Name,
             ForeignChange(s, l, n)
      PROVE VouchedInv'
  BY <1>4 DEF ForeignChange
<1>5. CASE UNCHANGED vars
  BY <1>5 DEF vars
<1>6. QED
  BY <1>1, <1>2, <1>3, <1>4, <1>5 DEF Next

\* Whatever a validation accepts, and so lets into the text of a statement,
\* the server itself has listed during the session.
THEOREM Vouched == Spec => []AcceptedWasVouched
<1>1. Init => VouchedInv
  BY DEF Init, Nothing, VouchedInv, AcceptedWasVouched
<1>2. TypeOK /\ VouchedInv /\ [Next]_vars => VouchedInv'
  BY VouchedStep
<1>3. VouchedInv => AcceptedWasVouched
  BY DEF VouchedInv
<1>4. QED
  BY <1>1, <1>2, <1>3, TypeCorrect, PTL DEF Spec

-----------------------------------------------------------------------------
\* What makes EntryIsCurrent inductive: an unstored listing that no clear
\* and no unheard change has overtaken is current too.
CurrentInv ==
  /\ EntryIsCurrent
  /\ (\A w \in Writer : wpc[w] \notin {"note", "notepin"}) =>
       \A r \in Reader : open /\ rpc[r] = "store" /\ r \notin overtaken
                              /\ r \notin crossed
                          => names[r] = Visible(listing[r])

LEMMA CurrentStep ==
  ASSUME TypeOK, CurrentInv, [Next]_vars
  PROVE  CurrentInv'
<1> USE DEF TypeOK, CurrentInv, EntryIsCurrent, Visible, server, cache, reader,
            flags
<1>1. ASSUME NEW r \in Reader, ReaderStep(r) PROVE CurrentInv'
  <2>1. ASSUME NEW l \in Listing, NEW u \in SUBSET Name, StartCheck(r, l, u)
        PROVE CurrentInv'
    BY <2>1 DEF StartCheck
  <2>2. ASSUME Lookup(r) PROVE CurrentInv'
    BY <2>2 DEF Lookup
  <2>3. ASSUME Load(r) PROVE CurrentInv'
    BY <2>3 DEF Load
  <2>4. ASSUME LoadFails(r) PROVE CurrentInv'
    BY <2>4 DEF LoadFails
  <2>5. ASSUME Store(r) PROVE CurrentInv'
    BY <2>5 DEF Store
  <2>6. ASSUME Decide(r) PROVE CurrentInv'
    BY <2>6 DEF Decide
  <2>7. ASSUME DropKey(r) PROVE CurrentInv'
    BY <2>7 DEF DropKey
  <2>8. QED
    BY <1>1, <2>1, <2>2, <2>3, <2>4, <2>5, <2>6, <2>7 DEF ReaderStep
<1>2. ASSUME NEW w \in Writer, WriterStep(w) PROVE CurrentInv'
  <2>1. ASSUME NEW s \in Scope, NEW l \in Listing, NEW S \in SUBSET Name,
               RunCatalogStatement(w, s, l, S)
        PROVE CurrentInv'
    BY <2>1 DEF RunCatalogStatement
  <2>2. ASSUME NEW s \in Scope, NEW pin \in BOOLEAN, RunSetPath(w, s, pin)
        PROVE CurrentInv'
    BY <2>2 DEF RunSetPath
  <2>3. CASE NoteStatement(w) \/ FinishSetPath(w) \/ Refresh(w)
    BY <2>3 DEF NoteStatement, FinishSetPath, Refresh, Clear
  <2>4. CASE Begin(w) \/ Commit(w) \/ Rollback(w)
    BY <2>4 DEF Begin, Commit, Rollback
  <2>5. QED
    BY <1>2, <2>1, <2>2, <2>3, <2>4 DEF WriterStep
<1>3. ASSUME Close PROVE CurrentInv'
  BY <1>3 DEF Close, Clear
<1>4. ASSUME NEW s \in Scope, NEW l \in Listing, NEW n \in Name,
             ForeignChange(s, l, n)
      PROVE CurrentInv'
  <2>1. /\ path' = path /\ open' = open /\ wpc' = wpc /\ rpc' = rpc
        /\ cached' = cached /\ entries' = entries /\ late' = late
        /\ names' = names /\ listing' = listing /\ overtaken' = overtaken
        /\ crossed' = crossed \cup
                        {r \in Reader : rpc[r] = "store" /\ listing[r] = l}
        /\ unheard' = unheard \cup {l}
    BY <1>4 DEF ForeignChange
  <2>2. \A k \in Listing : k # l => objects'[path][k] = objects[path][k]
    BY <1>4 DEF ForeignChange, Objects
  <2>3. QED
    BY <2>1, <2>2
<1>5. CASE UNCHANGED vars
  BY <1>5 DEF vars
<1>6. QED
  BY <1>1, <1>2, <1>3, <1>4, <1>5 DEF Next

\* The cache is never wrong about anything this connection did itself and
\* heard of, except through a load that a clear overtook.
THEOREM EntryCurrent == Spec => []EntryIsCurrent
<1>1. Init => CurrentInv
  BY DEF Init, CurrentInv, EntryIsCurrent
<1>2. TypeOK /\ CurrentInv /\ [Next]_vars => CurrentInv'
  BY CurrentStep
<1>3. CurrentInv => EntryIsCurrent
  BY DEF CurrentInv
<1>4. QED
  BY <1>1, <1>2, <1>3, TypeCorrect, PTL DEF Spec

-----------------------------------------------------------------------------
\* What makes RealNameNotRejected inductive: after the drop, a reader that
\* was not raced holds a listing it loaded itself, while all its names
\* existed.
RealNameInv ==
  /\ \A r \in Reader : rpc[r] # "idle" /\ r \in steady =>
       used[r] \subseteq Visible(listing[r])
  /\ \A r \in Reader :
       rpc[r] \in {"store", "decide"} /\ reloaded[r] /\ r \in steady
         /\ r \notin raced =>
         used[r] \subseteq names[r]
  /\ RealNameNotRejected

LEMMA RealNameStep ==
  ASSUME TypeOK, RealNameInv, [Next]_vars
  PROVE  RealNameInv'
<1> USE DEF TypeOK, RealNameInv, RealNameNotRejected, Visible, server, cache,
            reader, flags
<1>1. ASSUME NEW r \in Reader, ReaderStep(r) PROVE RealNameInv'
  <2>1. ASSUME NEW l \in Listing, NEW u \in SUBSET Name, StartCheck(r, l, u)
        PROVE RealNameInv'
    BY <2>1 DEF StartCheck
  <2>2. ASSUME Lookup(r) PROVE RealNameInv'
    BY <2>2 DEF Lookup
  <2>3. ASSUME Load(r) PROVE RealNameInv'
    BY <2>3 DEF Load
  <2>4. ASSUME LoadFails(r) PROVE RealNameInv'
    BY <2>4 DEF LoadFails
  <2>5. ASSUME Store(r) PROVE RealNameInv'
    BY <2>5 DEF Store
  <2>6. ASSUME Decide(r) PROVE RealNameInv'
    BY <2>6 DEF Decide
  <2>7. ASSUME DropKey(r) PROVE RealNameInv'
    BY <2>7 DEF DropKey
  <2>8. QED
    BY <1>1, <2>1, <2>2, <2>3, <2>4, <2>5, <2>6, <2>7 DEF ReaderStep
<1>2. ASSUME NEW w \in Writer, WriterStep(w) PROVE RealNameInv'
  <2>1. ASSUME NEW s \in Scope, NEW l \in Listing, NEW S \in SUBSET Name,
               RunCatalogStatement(w, s, l, S)
        PROVE RealNameInv'
    BY <2>1 DEF RunCatalogStatement, Observe
  <2>2. ASSUME NEW s \in Scope, NEW pin \in BOOLEAN, RunSetPath(w, s, pin)
        PROVE RealNameInv'
    BY <2>2 DEF RunSetPath, Observe
  <2>3. CASE NoteStatement(w) \/ FinishSetPath(w) \/ Refresh(w)
    BY <2>3 DEF NoteStatement, FinishSetPath, Refresh, Clear
  <2>4. CASE Begin(w) \/ Commit(w)
    BY <2>4 DEF Begin, Commit
  <2>5. CASE Rollback(w)
    BY <2>5 DEF Rollback, Observe
  <2>6. QED
    BY <1>2, <2>1, <2>2, <2>3, <2>4, <2>5 DEF WriterStep
<1>3. ASSUME Close PROVE RealNameInv'
  BY <1>3 DEF Close, Clear, Observe
<1>4. ASSUME NEW s \in Scope, NEW l \in Listing, NEW n \in Name,
             ForeignChange(s, l, n)
      PROVE RealNameInv'
  BY <1>4 DEF ForeignChange, Observe
<1>5. CASE UNCHANGED vars
  BY <1>5 DEF vars
<1>6. QED
  BY <1>1, <1>2, <1>3, <1>4, <1>5 DEF Next

\* However many threads validate, a name that was there throughout is
\* refused only through the race between a reload's drop and its lookup.
THEOREM OnlyARaceRejects == Spec => []RealNameNotRejected
<1>1. Init => RealNameInv
  BY DEF Init, RealNameInv, RealNameNotRejected
<1>2. TypeOK /\ RealNameInv /\ [Next]_vars => RealNameInv'
  BY RealNameStep
<1>3. RealNameInv => RealNameNotRejected
  BY DEF RealNameInv
<1>4. QED
  BY <1>1, <1>2, <1>3, TypeCorrect, PTL DEF Spec
=============================================================================
