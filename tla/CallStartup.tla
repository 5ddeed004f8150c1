---------------------------- MODULE CallStartup ----------------------------
(***************************************************************************)
(* How a call rebuilds its conversation from stored chunks                 *)
(* (disha/call_startup.go): pure operators.  A chunk is a record           *)
(*   id      its identity (text and timestamps are left out)               *)
(*   role    "user", "assistant" or "tool"                                 *)
(*   debug   is_debug_log                                                  *)
(*   calls   tool call ids an assistant chunk carries (<<>>: none)         *)
(*   answers the tool_call_id of a result chunk (NoCall: none)             *)
(*   other   additional_data of some other shape                           *)
(***************************************************************************)
EXTENDS Naturals, SequencesExt

CONSTANTS NoCall

Plain(id, role) == [id |-> id, role |-> role, debug |-> FALSE,
                    calls |-> <<>>, answers |-> NoCall, other |-> FALSE]

\* messageFromChunkTuple and messageFromToolContextChunk skip debug chunks and
\* metadata that is not a tool context; what is left is replayed.
Replayable(c) ==
    ~c.debug /\ (c.other => c.calls # <<>> \/ c.answers # NoCall)

\* An assistant chunk with tool_calls is replayed as the call alone: its
\* branch comes first, so tool_call_id is not looked at.
messageFromChunk(c) ==
    [id |-> c.id, role |-> c.role, calls |-> c.calls,
     answers |-> IF c.calls = <<>> THEN c.answers ELSE NoCall]

\* What buildInitialMessages adds to the stored chunks.
SystemMessage(id) ==
    [id |-> <<id, "added">>, role |-> "system", calls |-> <<>>, answers |-> NoCall]

\* A place is a triple of numbers, the last of them a position.
Precedes(p, q) ==
    \/ p[1] < q[1]
    \/ p[1] = q[1] /\ p[2] < q[2]
    \/ p[1] = q[1] /\ p[2] = q[2] /\ p[3] < q[3]

\* The members of s at the positions of places, in the order of the places.
Arranged(s, places) ==
    [k \in 1..Cardinality(places) |->
       LET at == CHOOSE p \in places :
                   Cardinality({q \in places : Precedes(q, p)}) = k - 1
       IN  s[at[3]]]

\* The members of s at the positions in N, in the order of s.
Kept(s, N) == Arranged(s, {<<n, 0, n>> : n \in N})

\* Mutant: results keep the place storage gave them.
KeepOrder(msgs) == msgs

IsResult(m) == m.role = "tool" /\ m.answers # NoCall

\* The messages that ask for the result of a call.
Asking(msgs, call) ==
    {i \in DOMAIN msgs :
       ~IsResult(msgs[i]) /\ \E k \in DOMAIN msgs[i].calls : msgs[i].calls[k] = call}

\* Results go right behind the first message that asks for them, in the order
\* of its calls; results nobody asks for go to the end, in the order their ids
\* first appear.
PlaceOf(msgs, n) ==
    LET call   == msgs[n].answers
        asking == Asking(msgs, call)
        i      == Min(asking)
    IN  IF ~IsResult(msgs[n]) THEN <<n, 0, n>>
        ELSE IF asking # {}
        THEN <<i, Min({k \in DOMAIN msgs[i].calls : msgs[i].calls[k] = call}), n>>
        ELSE <<Len(msgs) + 1,
               Min({p \in DOMAIN msgs : IsResult(msgs[p]) /\ msgs[p].answers = call}),
               n>>

reorderToolResultMessages(msgs) ==
    Arranged(msgs, {PlaceOf(msgs, n) : n \in DOMAIN msgs})

\* buildResumeSystemMessage: r says whether the conversation names a chunk it
\* was resumed from, whether that chunk came with a readable time, whether
\* resume_gracefully is set, and whether the chunk is recent.
NoResume == "none"
buildResumeSystemMessage(r) ==
    CASE ~(r.named /\ r.dated /\ r.gracefully) -> NoResume
      [] r.recent -> "within_window"
      [] OTHER    -> "after_window"

buildInitialMessages(chunks, resumeMessage) ==
    LET replay == Kept(chunks, {n \in DOMAIN chunks : Replayable(chunks[n])})
        msgs   == reorderToolResultMessages(
                    <<SystemMessage("prompt")>>
                      \o [n \in DOMAIN replay |-> messageFromChunk(replay[n])])
        hello  == messageFromChunk(Plain(<<"hello", "added">>, "user"))
    IN  IF Len(msgs) = 1 THEN Append(msgs, hello)
        ELSE IF resumeMessage = NoResume THEN msgs
        ELSE Append(msgs, SystemMessage(resumeMessage))

----------------------------------------------------------------------------
(* What is stored, and how it is read back.                                *)

\* Chunks are read back by creation time; those of one tool call have, to the
\* database's precision, the same one.
SameTime(c, d) == c.id[1] = d.id[1]
StorageOrders(seq) ==
    {[n \in DOMAIN seq |-> seq[f[n]]] :
       f \in {g \in [DOMAIN seq -> DOMAIN seq] :
                /\ \A i, j \in DOMAIN seq : g[i] = g[j] => i = j
                /\ \A i \in DOMAIN seq : SameTime(seq[g[i]], seq[i])}}

Turn(c) == Replayable(c) /\ c.role # "tool"

\* Stored chunks are listed by their time, each once, and of one time is one
\* turn at most: a tool call's and its results' chunks share one.
Timed(seq) ==
    /\ \A i, j \in DOMAIN seq : seq[i] = seq[j] => i = j
    /\ \A i, j, k \in DOMAIN seq :
          i < j /\ j < k /\ SameTime(seq[i], seq[k]) => SameTime(seq[i], seq[j])
    /\ \A i, j \in DOMAIN seq :
          Turn(seq[i]) /\ Turn(seq[j]) /\ SameTime(seq[i], seq[j]) => i = j

\* What the program stores of its calls while no append fails: a tool call with
\* its one result, under ids that nothing else has.
Whole(chunks) ==
    LET replayed == {c \in chunks : Replayable(c)}
        results  == {c \in replayed : c.role = "tool"}
    IN  /\ \A c, d \in chunks : c.id = d.id => c = d
        /\ \A c \in chunks : c.id[2] # "added"
        /\ \A c \in chunks :
              c.calls \in Seq(UNION {ToSet(d.calls) : d \in chunks})
        /\ \A r \in results :
              /\ r.calls = <<>> /\ r.answers # NoCall
              /\ \E c \in replayed : r.answers \in ToSet(c.calls)
        /\ \A c \in replayed : \A k \in DOMAIN c.calls :
              \E r \in results : r.answers = c.calls[k]
        /\ \A r, s \in results : r.answers = s.answers => r = s
        /\ \A c, d \in replayed : \A k \in DOMAIN c.calls, l \in DOMAIN d.calls :
              c.calls[k] = d.calls[l] => c = d /\ k = l

----------------------------------------------------------------------------
(* What an LLM provider accepts: a message with tool calls is followed by  *)
(* one result for each of them and no result stands elsewhere.             *)

Answered(msgs, i) ==
    LET n == Len(msgs[i].calls)
    IN  /\ i + n <= Len(msgs)
        /\ {msgs[i + k].answers : k \in 1..n} = ToSet(msgs[i].calls)

WellFormed(msgs) ==
    /\ \A i \in DOMAIN msgs : msgs[i].calls # <<>> => Answered(msgs, i)
    /\ \A i \in DOMAIN msgs : msgs[i].role = "tool" =>
          \E j \in 1..(i - 1) : j + Len(msgs[j].calls) >= i

\* What the user is owed: every turn of the stored chunks once, what is not a
\* result in the order it was said.
Replays(msgs, chunks) ==
    LET ids   == [n \in DOMAIN msgs |-> msgs[n].id]
        turns == {n \in DOMAIN chunks : Turn(chunks[n])}
    IN  /\ IsInjective(ids)
        /\ \A n \in DOMAIN chunks :
              Replayable(chunks[n]) <=> chunks[n].id \in ToSet(ids)
        /\ \A m, n \in turns : m < n =>
              \A i, j \in DOMAIN ids :
                 ids[i] = chunks[m].id /\ ids[j] = chunks[n].id => i < j
=============================================================================
