------------------------------- MODULE Dialogue -------------------------------
(***************************************************************************)
(* The owner's conversation with the analyst model about one projection:   *)
(* dialogue/service.py behind POST /api/dialogue/{projection}/messages. A  *)
(* turn is two transactions, the question's and the answer's, with up to   *)
(* MaxRounds of tool calls in the second; the console may send a second    *)
(* question while the first is being answered, or give up and send again.  *)
(***************************************************************************)
EXTENDS Provider, Sequences, SequencesExt

CONSTANTS
    Turns,       \* bound: how many calls of send_message
    MaxOpen,     \* bound: how many of them at once
    MaxRounds,   \* MAX_TOOL_ROUNDS
    MaxCalls,    \* bound: tool calls in one envelope
    MaxReplay    \* MAX_REPLAY_MESSAGES

ASSUME DialogueAssumption ==
    /\ Turns \in Nat /\ MaxOpen \in Nat /\ MaxRounds \in Nat
    /\ MaxCalls \in Nat \ {0} /\ MaxReplay \in Nat
    /\ None \notin [turn : 1..Turns, stored : BOOLEAN]   \* no dialogue is no row

\* The calls of send_message, in the order they arrive.
Turn == 1..Turns

VARIABLES
    thread,   \* the projection's dialogue: None, or the row and the turn that inserted it
    log,      \* dialogue_messages by created_at, uncommitted rows among them
    holder,   \* the turn whose open transaction has updated the dialogue row
    turn      \* Turn -> where its call is, what it replays, the tool calls it has left

dialogueVars == <<thread, log, holder, turn>>

\* A row: whose turn, what kind, the tool calls it makes or answers, committed or not.
Kind == {"question", "calls", "result", "reply"}
Row(t, kind, ids) == [turn |-> t, kind |-> kind, ids |-> ids, stored |-> FALSE]

\* The envelopes a round may get; the ids the provider gives its calls are its own.
Envelopes(t, round) == {{<<t, round, i>> : i \in 1..n} : n \in 1..MaxCalls}

\* A call of send_message that has not begun, or has ended.
Call(place) == [at |-> place, replay |-> <<>>, round |-> 0, todo |-> {}]
Ends(t) == turn' = [turn EXCEPT ![t] = Call("ended")]

DialogueInit ==
    /\ thread = None
    /\ log = <<>>
    /\ holder = None
    /\ turn = [t \in Turn |-> Call("unsent")]

Goes(t, place) == turn' = [turn EXCEPT ![t].at = place]

Found == thread # None /\ thread.stored

\* What is left of a table's rows at some of their places, in their order.
NthPlace(places, k) == CHOOSE i \in places : Cardinality({j \in places : j <= i}) = k
Pick(rows, places) == [k \in 1..Cardinality(places) |-> rows[NthPlace(places, k)]]

Committed == Pick(log, {i \in DOMAIN log : log[i].stored})

\* get_dialogue: what the console shows, ordered by created_at.
Transcript == IF Found THEN Committed ELSE <<>>

\* The call is accepted, the projection's context is read, and its dialogue looked up.
Send(t) ==
    /\ turn[t].at = "unsent"
    /\ \A u \in Turn : u < t => turn[u].at # "unsent"
    /\ Cardinality({u \in Turn : turn[u].at \notin {"unsent", "ended"}}) < MaxOpen
    /\ Goes(t, IF Found THEN "found" ELSE "missing")
    /\ UNCHANGED <<thread, log, holder>>

\* The key (projection, analyst) is unique: the insert waits for another's
\* uncommitted one, and fails when that was committed meanwhile.
Create(t) ==
    /\ turn[t].at = "missing"
    /\ \/ thread = None /\ thread' = [turn |-> t, stored |-> FALSE] /\ Goes(t, "found")
       \/ Found /\ Ends(t) /\ UNCHANGED thread
    /\ UNCHANGED <<log, holder>>

\* The newest MaxReplay messages, back in order.
Window(rows) == SubSeq(rows, IF Len(rows) > MaxReplay THEN Len(rows) - MaxReplay + 1 ELSE 1, Len(rows))

ReadHistory(t) ==
    /\ turn[t].at = "found"
    /\ turn' = [turn EXCEPT ![t].at = "asking", ![t].replay = Window(Committed)]
    /\ UNCHANGED <<thread, log, holder>>

\* _append_message stamps and inserts the row, then updates the dialogue: the
\* stamp is earlier than the wait for the dialogue's row.
Ask(t) ==
    /\ turn[t].at = "asking"
    /\ log' = Append(log, Row(t, "question", {}))
    /\ Goes(t, "asked")
    /\ UNCHANGED <<thread, holder>>

StoreRows(t) == log' = [i \in DOMAIN log |-> IF log[i].turn = t THEN [log[i] EXCEPT !.stored = TRUE] ELSE log[i]]

\* The first transaction commits the question before the provider is asked.
CommitQuestion(t) ==
    /\ turn[t].at = "asked" /\ holder = None
    /\ thread' = [thread EXCEPT !.stored = TRUE]
    /\ StoreRows(t)
    /\ Goes(t, "waiting")
    /\ UNCHANGED holder

\* The provider answers: with tool calls, which its last round was told not to
\* make, or with a text.
Answer(t) ==
    /\ turn[t].at = "waiting"
    /\ \/ \E ids \in Envelopes(t, turn[t].round) :
            /\ log' = Append(log, Row(t, "calls", ids))
            /\ turn' = [turn EXCEPT ![t].at = "called", ![t].todo = ids]
       \/ /\ log' = Append(log, Row(t, "reply", {}))
          /\ Goes(t, "replied")
    /\ UNCHANGED <<thread, holder>>

\* Mutation: a tool that raises leaves no result.
RowsWhenItRuns(t, id, raises) == IF raises THEN <<>> ELSE <<Row(t, "result", {id})>>

\* A tool is a fixed read on a connection of its own, or the web; what it raises
\* is reported to the model as its result.
ToolRows(t, id, raises) == <<Row(t, "result", {id})>>

\* The dialogue row is the transaction's from its first message on. Then comes
\* the next tool, and after the last one the next round, if there is one left.
Touched(t) == holder \in {None, t} /\ holder' = t

CallTool(t) ==
    /\ turn[t].at = "called" /\ turn[t].todo # {}
    /\ Touched(t)
    /\ LET id == CHOOSE i \in turn[t].todo : TRUE
       IN /\ \E raises \in BOOLEAN : log' = log \o ToolRows(t, id, raises)
          /\ turn' = [turn EXCEPT ![t].todo = @ \ {id}]
    /\ UNCHANGED thread

NextRound(t) ==
    /\ turn[t].at = "called" /\ turn[t].todo = {} /\ turn[t].round < MaxRounds
    /\ turn' = [turn EXCEPT ![t].at = "waiting", ![t].round = @ + 1]
    /\ UNCHANGED <<thread, log, holder>>

\* The reply ends the turn and its transaction commits.
CommitReply(t) ==
    /\ turn[t].at = "replied" /\ holder \in {None, t}
    /\ StoreRows(t)
    /\ holder' = None
    /\ Ends(t)
    /\ UNCHANGED thread

\* What a transaction that ends in an exception leaves of the table.
RolledBack(t) == Pick(log, {i \in DOMAIN log : log[i].turn # t \/ log[i].stored})

\* The provider fails or answers with nothing, the rounds run out, or the process
\* dies: the open transaction is rolled back.
Fail(t) ==
    /\ turn[t].at \in {"missing", "found", "asking", "asked", "waiting", "called", "replied"}
    /\ log' = RolledBack(t)
    /\ thread' = IF ~Found /\ thread # None /\ thread.turn = t THEN None ELSE thread
    /\ holder' = IF holder = t THEN None ELSE holder
    /\ Ends(t)

DialogueStep(t) ==
    \/ Send(t) \/ Create(t) \/ ReadHistory(t) \/ Ask(t) \/ CommitQuestion(t)
    \/ Answer(t) \/ CallTool(t) \/ NextRound(t) \/ CommitReply(t) \/ Fail(t)

DialogueNext == \E t \in Turn : DialogueStep(t)

DialogueSpec == DialogueInit /\ [][DialogueNext]_dialogueVars

\* Types of the dialogue's tables and of the calls in flight.
DialogueTypeOK ==
    /\ thread \in [turn : Turn, stored : BOOLEAN] \cup {None}
    /\ \A i \in DOMAIN log : log[i] \in [turn : Turn, kind : Kind, ids : SUBSET (Turn \X (0..MaxRounds) \X (1..MaxCalls)), stored : BOOLEAN]
    /\ holder \in Turn \cup {None}
    /\ \A t \in Turn : Len(turn[t].replay) <= MaxReplay
-----------------------------------------------------------------------------
\* The messages of one turn are not next to each other.
Interleaved(rows) ==
    \E i, k \in DOMAIN rows : \E j \in i..k : rows[i].turn = rows[k].turn /\ rows[j].turn # rows[i].turn

\* From the first question on: what is before it is the tail of a turn the
\* window has cut.
FromAQuestion(rows) ==
    LET first == {i \in DOMAIN rows : rows[i].kind = "question"}
    IN IF first = {} THEN <<>>
       ELSE SubSeq(rows, CHOOSE i \in first : \A j \in first : i <= j, Len(rows))

\* What a provider takes for a conversation: each envelope is followed by the
\* results of its calls, and each result follows the envelope that asked for it.
IsConversation(rows) ==
    \A i \in DOMAIN rows :
        /\ rows[i].kind = "calls" =>
            LET after == i + 1..i + Cardinality(rows[i].ids)
            IN after \subseteq DOMAIN rows /\ UNION {rows[j].ids : j \in after} = rows[i].ids
        /\ rows[i].kind = "result" =>
            \E j \in 1..i - 1 : /\ rows[j].kind = "calls" /\ rows[i].ids \subseteq rows[j].ids
                                /\ \A k \in j + 1..i : rows[k].kind = "result"

\* A question with its whole answer, or a question that never got one.
IsAnswered(rows) ==
    /\ rows # <<>> => Last(rows).kind \in {"question", "reply"}
    /\ \A i \in DOMAIN rows : \A j \in {i + 1} \cap DOMAIN rows :
        /\ rows[j].kind = "question" => rows[i].kind \in {"question", "reply"}
        /\ rows[j].kind # "question" => rows[i].turn = rows[j].turn /\ rows[i].kind # "reply"

\* What a turn replays to the provider is a conversation, "byte-for-byte" as
\* service.py:455 says, and so is what the console shows: every question with all
\* of its answer or none of it, and every tool call with its result, whatever
\* failed or died before. Turns that overlapped, and what the window has cut off
\* before its first question, are excepted: there the code keeps no such promise.
ReplaysAreConversations ==
    ~Interleaved(log) =>
        \A rows \in {Transcript} \cup {FromAQuestion(turn[t].replay) : t \in Turn} :
            IsConversation(rows) /\ IsAnswered(rows)
=============================================================================
