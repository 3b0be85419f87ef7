------------------------------ MODULE RaftLog ------------------------------
(***************************************************************************)
(* The Raft log (src/raft/log.rs) over its storage engine, one storage     *)
(* operation at a time, with crashes between any two of them.              *)
(*                                                                         *)
(* The engine is a single append-only file (storage/bitcask.rs): a crash   *)
(* keeps what was flushed and some prefix of the writes made since; a      *)
(* crash of the process alone keeps them all.  A call of the log is first  *)
(* turned into the storage operations it makes, which are then executed;   *)
(* the cached fields of Log are set when the call returns.  Commands are   *)
(* left out: an entry is its index and its term.                           *)
(***************************************************************************)
EXTENDS Integers, SequencesExt

CONSTANTS
    Nodes,      \* node IDs, for votes
    None,       \* no vote
    MaxTerm,    \* bound: terms
    MaxIndex,   \* bound: log indexes
    MaxWrites   \* bound: storage writes since the last flush when a call starts

VARIABLES
    flushed,   \* the store as of the last flush
    pending,   \* the writes since, in order
    todo,      \* storage operations the current call has yet to make
    cached,    \* the in-memory fields of Log
    result,    \* their values once the current call returns
    promised,  \* history: the last term and vote that a call has returned
    interrupted \* history: what has crashed in the middle of a call, "host" or "process"

vars == <<flushed, pending, todo, cached, result, promised, interrupted>>

Indexes == 1 .. MaxIndex
Terms == 1 .. MaxTerm
Missing == 0

\* A store holds, under Key::Entry(i), a term (Missing when the key is absent),
\* and the values of Key::TermVote and Key::CommitIndex.
SetEntry(index, term) == [key |-> "entry", index |-> index, term |-> term]
DeleteEntry(index) == SetEntry(index, Missing)
SetMeta(key, value) == [key |-> key, value |-> value]
Flush == [key |-> "flush"]

Write(store, w) ==
    IF w.key = "entry" THEN [store EXCEPT !.entry[w.index] = w.term]
    ELSE [store EXCEPT ![w.key] = w.value]
Replay(store, writes) == FoldLeft(Write, store, writes)

\* What the log reads: the flushed store and all writes since.
Store == Replay(flushed, pending)

\* Log::new: the cached fields, from the store.
Load(store) ==
    LET present == {i \in Indexes : store.entry[i] # Missing}
        last    == IF present = {} THEN 0 ELSE Max(present)
    IN  [termVote |-> store.termVote, commit |-> store.commit,
         last |-> <<last, IF last = 0 THEN 0 ELSE store.entry[last]>>]

Idle == todo = <<>>
Term == cached.termVote[1]
LastIndex == cached.last[1]
CommitIndex == cached.commit[1]

Init ==
    /\ flushed = [entry |-> [i \in Indexes |-> Missing],
                  termVote |-> <<0, None>>, commit |-> <<0, 0>>]
    /\ pending = <<>>
    /\ todo = <<>>
    /\ cached = Load(flushed)
    /\ result = cached
    /\ promised = cached.termVote
    /\ interrupted = {}

Call(operations, returned) ==
    /\ Idle
    /\ Len(pending) <= MaxWrites
    /\ todo' = operations
    /\ result' = returned
    /\ UNCHANGED <<flushed, pending, cached, promised, interrupted>>

\* set_term_vote: nothing to store, or a later term or a first vote in this one.
SameTermVote ==
    /\ Idle
    /\ Term > 0
    /\ promised' = cached.termVote
    /\ UNCHANGED <<flushed, pending, todo, cached, result, interrupted>>
NewTermVote(term, vote) ==
    term > Term \/ (term = Term /\ cached.termVote[2] = None /\ vote # None)

\* Mutant: the vote is stored but not flushed.
SetTermVoteUnflushed(term, vote) ==
    \/ <<term, vote>> = cached.termVote /\ SameTermVote
    \/ /\ NewTermVote(term, vote)
       /\ Call(<<SetMeta("termVote", <<term, vote>>)>>,
               [cached EXCEPT !.termVote = <<term, vote>>])

SetTermVote(term, vote) ==
    \/ <<term, vote>> = cached.termVote /\ SameTermVote
    \/ /\ NewTermVote(term, vote)
       /\ Call(<<SetMeta("termVote", <<term, vote>>), Flush>>,
               [cached EXCEPT !.termVote = <<term, vote>>])

Append1 ==
    /\ Term > 0
    /\ LastIndex < MaxIndex
    /\ Call(<<SetEntry(LastIndex + 1, Term), Flush>>,
            [cached EXCEPT !.last = <<LastIndex + 1, Term>>])

Commit(index) ==
    /\ index > CommitIndex
    /\ Store.entry[index] # Missing
    /\ Call(<<SetMeta("commit", <<index, Store.entry[index]>>)>>,
            [cached EXCEPT !.commit = <<index, Store.entry[index]>>])

\* Op(from), ..., Op(to).
Each(Op(_), from, to) == [k \in 1 .. Max({0, to - from + 1}) |-> Op(from + k - 1)]

\* splice is given the terms of the entries from index first on.  Of these it
\* skips the ones that the log has, sets the others in order, and then deletes
\* the tail of the old log in order.
FirstNew(first, terms) ==
    Min({i \in first .. first + Len(terms) :
            i = first + Len(terms) \/ Store.entry[i] # terms[i - first + 1]})
\* Mutant: the tail of the old log stays.
SpliceWritesKeepTail(first, terms) ==
    LET last   == first + Len(terms) - 1
        set(i) == SetEntry(i, terms[i - first + 1])
    IN  Each(set, FirstNew(first, terms), last)
SpliceWrites(first, terms) ==
    LET last     == first + Len(terms) - 1
        new      == FirstNew(first, terms)
        set(i)   == SetEntry(i, terms[i - first + 1])
    IN  IF new > last THEN <<>>
        ELSE Each(set, new, last) \o Each(DeleteEntry, last + 1, LastIndex)

\* Mutants: entries at or below the commit index may be replaced; the cached
\* last index never moves back.
SpliceCommitted(first, terms) ==
    /\ first + Len(terms) - 1 <= LastIndex
    /\ terms[Len(terms)] <= Term
    /\ SpliceWrites(first, terms) # <<>>
    /\ Call(SpliceWrites(first, terms) \o <<Flush>>,
            [cached EXCEPT !.last = <<first + Len(terms) - 1, terms[Len(terms)]>>])
SpliceKeepsLast(first, terms) ==
    /\ first + Len(terms) - 1 <= LastIndex
    /\ first > CommitIndex
    /\ terms[Len(terms)] <= Term
    /\ SpliceWrites(first, terms) # <<>>
    /\ Call(SpliceWrites(first, terms) \o <<Flush>>, cached)

\* The guards are the assertions of splice.
Splice(first, terms) ==
    LET last == first + Len(terms) - 1
        new  == FirstNew(first, terms)
    IN  /\ last <= MaxIndex
        /\ \A k \in 1 .. Len(terms) - 1 : terms[k] <= terms[k + 1]
        /\ terms[Len(terms)] <= Term
        /\ first > 1 => Store.entry[first - 1] \in 1 .. terms[1]
        /\ new \in CommitIndex + 1 .. last
        \* the scan that looks for new meets no gap
        /\ Store.entry[new] = Missing => \A i \in new .. last : Store.entry[i] = Missing
        /\ Call(SpliceWrites(first, terms) \o <<Flush>>,
                [cached EXCEPT !.last = <<last, terms[Len(terms)]>>])

\* The next storage operation of the current call.
Storage ==
    /\ ~Idle
    /\ todo' = Tail(todo)
    /\ IF Head(todo) = Flush
       THEN flushed' = Store /\ pending' = <<>>
       ELSE pending' = Append(pending, Head(todo)) /\ UNCHANGED flushed
    /\ cached' = IF Len(todo) = 1 THEN result ELSE cached
    /\ promised' = IF Len(todo) = 1 THEN result.termVote ELSE promised
    /\ UNCHANGED <<result, interrupted>>

\* What a crash of the host now may leave on disk.
AfterCrash == {Replay(flushed, SubSeq(pending, 1, k)) : k \in 0 .. Len(pending)}

\* A crash, in a call or between calls, and Log::new on what is left: of the
\* host, or of the process only (what it wrote is kept, and still unflushed).
Restart(store, crashed) ==
    /\ todo' = <<>>
    /\ cached' = Load(store)
    /\ result' = cached'
    /\ interrupted' = IF Idle THEN interrupted ELSE interrupted \cup {crashed}
    /\ UNCHANGED promised
CrashHost ==
    \E store \in AfterCrash : flushed' = store /\ pending' = <<>> /\ Restart(store, "host")
CrashProcess == Restart(Store, "process") /\ UNCHANGED <<flushed, pending>>

Next ==
    \/ \E term \in Terms, vote \in Nodes \cup {None} : SetTermVote(term, vote)
    \/ Append1
    \/ \E index \in Indexes : Commit(index)
    \/ \E first \in Indexes, terms \in SeqOf(Terms, 2) \ {<<>>} : Splice(first, terms)
    \/ Storage
    \/ CrashHost
    \/ CrashProcess

Spec == Init /\ [][Next]_vars

-----------------------------------------------------------------------------
(* Properties. *)

\* Outside a call the cached last index, commit index, term and vote are what
\* Log::new would load from the store: the fast paths that use them are right,
\* also on a log that a crash has torn.
CacheCoherent == Idle => cached = Load(Store)

\* A term and vote that set_term_vote has returned survive any crash, at any
\* point of any later call: the node cannot vote twice in a term.  Except that
\* a process that crashed in a call has left writes that nothing flushes, and
\* the early return of set_term_vote relies on them.
VoteSurvivesCrash ==
    "process" \notin interrupted => \A store \in AfterCrash :
        \/ store.termVote[1] > promised[1]
        \/ store.termVote = promised
        \/ store.termVote[1] = promised[1] /\ promised[2] = None

CommittedStep ==
    "process" \notin interrupted' =>
        \A i \in 1 .. CommitIndex : Store'.entry[i] = Store.entry[i]

\* No call, no part of a call and no crash of the host changes or removes an
\* entry at or below the commit index.
CommittedKept == [][CommittedStep]_vars

Contiguous(entry) == \A i \in 1 .. MaxIndex - 1 : entry[i + 1] # Missing => entry[i] # Missing
Sorted(entry) ==
    \A i \in 1 .. MaxIndex - 1 : entry[i + 1] # Missing => entry[i] <= entry[i + 1]

\* Unless a crash has cut a call short, the log has no gaps, its terms never
\* decrease and its entries are flushed, before and after every crash.
IntactWithoutTornCalls ==
    Idle /\ interrupted = {} =>
        /\ Contiguous(Store.entry)
        /\ Sorted(Store.entry)
        /\ flushed.entry = Store.entry
=============================================================================
