------------------------------ MODULE ChatWire ------------------------------
(***************************************************************************)
(* A rendered transcript in the shapes of two vendors, from                *)
(* src/crates/domarinn-core/src/chat_wire.rs.                              *)
(*                                                                         *)
(* Of a message are kept its role, the ids of the calls it makes and the   *)
(* id of the call it answers; an id that the transcript omits is NoId.  An *)
(* id that is written is a tuple of one, a derived one a pair.             *)
(***************************************************************************)
EXTENDS Naturals, Sequences

LOCAL INSTANCE SequencesExt

CONSTANTS Transcripts,    \* sequences of messages [role, calls, id]
          NoId

VARIABLES msgs,           \* the transcript
          i,              \* the message plan is at
          open_calls,     \* ids of the most recent round of calls, until it is answered
          turns           \* what plan made of the messages before i

wireVars == <<msgs, i, open_calls, turns>>

\* By its place in the transcript, so that the same transcript has the same ids.
ByPlaceInTurn(turn, call) == <<0, call>>
synthetic_id(turn, call) == <<turn, call>>

CallIds(turn) ==
    LET calls == msgs[turn].calls IN
    [n \in DOMAIN calls |-> IF calls[n] # NoId THEN calls[n] ELSE synthetic_id(turn, n)]

\* The last of the results that follow each other from here.
RunEnd(start) ==
    CHOOSE e \in start..Len(msgs) :
        /\ \A k \in start..e : msgs[k].role = "tool"
        /\ e < Len(msgs) => msgs[e + 1].role # "tool"

\* Its own id, the id of the call in its place, or one that no call has.
ResultId(start, k) ==
    LET nth == k - start + 1 IN
    CASE msgs[k].id # NoId -> msgs[k].id
      [] msgs[k].id = NoId /\ nth \in DOMAIN open_calls -> open_calls[nth]
      [] OTHER -> synthetic_id(start, nth)

PlanResults ==
    /\ i <= Len(msgs) /\ msgs[i].role = "tool"
    /\ turns' = Append(turns, [kind |-> "results", from |-> i,
                               ids |-> [n \in 1..(RunEnd(i) - i + 1) |-> ResultId(i, i + n - 1)]])
    /\ open_calls' = <<>>
    /\ i' = RunEnd(i) + 1
    /\ UNCHANGED msgs

PlanCalls ==
    /\ i <= Len(msgs) /\ msgs[i].role # "tool" /\ msgs[i].calls # <<>>
    /\ turns' = Append(turns, [kind |-> "calls", from |-> i, ids |-> CallIds(i)])
    /\ open_calls' = CallIds(i)
    /\ i' = i + 1
    /\ UNCHANGED msgs

PlanPlain ==
    /\ i <= Len(msgs) /\ msgs[i].role # "tool" /\ msgs[i].calls = <<>>
    /\ turns' = Append(turns, [kind |-> "plain", from |-> i, ids |-> <<>>])
    /\ i' = i + 1
    /\ UNCHANGED <<msgs, open_calls>>

ChatInit == msgs \in Transcripts /\ i = 1 /\ open_calls = <<>> /\ turns = <<>>

ChatNext == PlanResults \/ PlanCalls \/ PlanPlain

ChatSpec == ChatInit /\ [][ChatNext]_wireVars

-----------------------------------------------------------------------------
(* The two shapes: what a message carries, in order.                       *)

IsSystem(t) == t.kind = "plain" /\ msgs[t.from].role = "system"

\* System turns go into a field of their own; a round of results is one message.
anthropic_messages ==
    LET sent == SelectSeq(turns, LAMBDA t : ~IsSystem(t)) IN
    [k \in DOMAIN sent |->
        [role |-> IF sent[k].kind = "results" THEN "user" ELSE msgs[sent[k].from].role,
         calls |-> IF sent[k].kind = "calls" THEN sent[k].ids ELSE <<>>,
         answers |-> IF sent[k].kind = "results" THEN sent[k].ids ELSE <<>>]]

\* A message for each result.
openai_messages ==
    FlattenSeq([k \in DOMAIN turns |->
        CASE turns[k].kind = "results" ->
                [n \in DOMAIN turns[k].ids |->
                    [role |-> "tool", calls |-> <<>>, answers |-> <<turns[k].ids[n]>>]]
          [] turns[k].kind = "calls" ->
                <<[role |-> "assistant", calls |-> turns[k].ids, answers |-> <<>>]>>
          [] OTHER -> <<[role |-> msgs[turns[k].from].role, calls |-> <<>>, answers |-> <<>>]>>])

Calls(wire) == FlattenSeq([k \in DOMAIN wire |-> wire[k].calls])
Answers(wire) == FlattenSeq([k \in DOMAIN wire |-> wire[k].answers])

\* The round of calls that the results at message k follow: no other results
\* and no later calls come between them.
RoundBefore(k) ==
    {c \in 1..(k - 1) : /\ msgs[c].calls # <<>>
                        /\ \A m \in (c + 1)..(k - 1) : msgs[m].role # "tool" /\ msgs[m].calls = <<>>}

\* Both vendors are sent the same calls and the same answers, none is lost, and
\* no two calls have one id.  A result that names no call carries the id of the
\* call in its place in the round it follows, and when there is none, an id that
\* no call of the transcript has and no other such result (plan, synthetic_id).
ResultsAnswerTheirCalls ==
    i > Len(msgs) =>
      /\ Calls(anthropic_messages) = Calls(openai_messages)
      /\ Answers(anthropic_messages) = Answers(openai_messages)
      /\ IsInjective(Calls(openai_messages))
      /\ Len(Answers(openai_messages)) = Len(SelectSeq(msgs, LAMBDA m : m.role = "tool"))
      /\ \A t \in DOMAIN turns : turns[t].kind = "results" =>
           \A n \in DOMAIN turns[t].ids :
             LET start == turns[t].from
                 id == turns[t].ids[n]
                 mine == {c \in DOMAIN turns : turns[c].kind = "calls" /\ turns[c].from \in RoundBefore(start)
                                               /\ n \in DOMAIN turns[c].ids}
             IN msgs[start + n - 1].id = NoId =>
                  IF mine # {} THEN \A c \in mine : turns[c].ids[n] = id
                  ELSE /\ \A k \in DOMAIN Calls(openai_messages) : Calls(openai_messages)[k] # id
                       /\ \A u \in DOMAIN turns, m \in DOMAIN turns[t].ids :
                            turns[u].kind = "results" /\ u # t /\ m \in DOMAIN turns[u].ids
                              => turns[u].ids[m] # id
=============================================================================
