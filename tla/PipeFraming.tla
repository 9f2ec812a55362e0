----------------------------- MODULE PipeFraming -----------------------------
(***************************************************************************)
(* The two pipes between the App and the Sofia thread.  A message is       *)
(* written with a '$' behind it; the reader takes what there is, up to the *)
(* size of its buffer, and cuts it at the '$'s.  Nothing is kept from one  *)
(* read to the next.                                                       *)
(*                                                                         *)
(* Bytes are taken together to chunks, of which the '$' is one.            *)
(***************************************************************************)
EXTENDS Integers, Sequences, SequencesExt

CONSTANTS
    Sides,        \* the pipes to look at
    Delimiter,    \* the '$'
    Messages,     \* sequences of chunks
    Capacity,     \* chunks the pipe takes before write() blocks
    Buffer,       \* chunks the reader's buffer takes
    MaxBacklog,   \* bound: messages not yet handled when another is sent
    MaxSent       \* bound: messages sent

ASSUME PipeFramingAssumption ==
    /\ Sides \subseteq {"commands", "replies"}
    /\ Capacity \in Nat \ {0} /\ Buffer \in Nat \ {0}
    /\ MaxBacklog \in Nat /\ MaxSent \in Nat
    /\ \A m \in Messages : m \in Seq(Range(m))

VARIABLES
    side,       \* "commands": App to Sofia, "replies": Sofia to App
    sent,       \* messages given to write()
    writing,    \* what write() has not put into the pipe yet
    pipe,       \* chunks in the pipe
    handled,    \* what the reader's handler was called with
    exited      \* exit(1) was called

vars == <<side, sent, writing, pipe, handled, exited>>

Smaller(m, n) == IF m <= n THEN m ELSE n

\* The pieces of a buffer between its delimiters, the last one possibly empty.
Pieces(data) ==
    LET upTo[n \in 0..Len(data)] ==
          IF n = 0 THEN << <<>> >>
          ELSE IF data[n] = Delimiter THEN Append(upTo[n - 1], <<>>)
          ELSE [upTo[n - 1] EXCEPT ![Len(upTo[n - 1])] = Append(@, data[n])]
    IN  upTo[Len(data)]

\* Mutant of CommandTokens: only the first command of a buffer is handled.
CommandTokensFirst(data) == <<Head(Pieces(data))>>

\* The strsep loop of ssc_input_read_char: up to the first empty piece.
CommandTokens(data) ==
    LET pieces == Pieces(data)
        empty == {i \in 1..Len(pieces) : pieces[i] = <<>>}
    IN  IF empty = {} THEN pieces
        ELSE SubSeq(pieces, 1, (CHOOSE i \in empty : \A j \in empty : i <= j) - 1)

\* Mutant of ReplyTokens: the rest of the buffer is looked at once more.
ReplyTokensAgain(data) ==
    LET pieces == Pieces(data) IN Append(Front(pieces), pieces[Len(pieces)])

\* The loop of inputCallback around Deserialize: a rest without a '$' leaves
\* the SofiaReply as it was, and that is handled once more.
ReplyTokens(data) ==
    LET replies == Front(Pieces(data))
    IN  IF Last(Pieces(data)) = <<>> THEN replies
        ELSE Append(replies, IF replies = <<>> THEN <<>> ELSE Last(replies))

Init ==
    /\ side \in Sides
    /\ sent = <<>> /\ writing = <<>> /\ pipe = <<>> /\ handled = <<>>
    /\ exited = FALSE

\* Mutant of Framed: the delimiter is forgotten.
FramedBare(m) == m

\* pipeToSofia appends the delimiter, and so does Serialize.
Framed(m) == Append(m, Delimiter)

\* pipeToSofia and SofiaReply::Send call write().
Send(m) ==
    /\ ~exited /\ writing = <<>>
    /\ Len(sent) < MaxSent /\ Len(sent) - Len(handled) < MaxBacklog
    /\ sent' = Append(sent, m)
    /\ writing' = Framed(m)
    /\ UNCHANGED <<side, pipe, handled, exited>>

\* Mutant of Write: the NUL that ends the string is written too.
WriteWithNul ==
    /\ ~exited /\ writing # <<>> /\ Len(pipe) < Capacity
    /\ LET n == Smaller(Len(writing), Capacity - Len(pipe))
       IN  /\ pipe' = pipe \o Append(SubSeq(writing, 1, n), "NUL")
           /\ writing' = SubSeq(writing, n + 1, Len(writing))
    /\ UNCHANGED <<side, sent, handled, exited>>

\* write() on the blocking pipe: as much as there is room for at a time.
Write ==
    /\ ~exited /\ writing # <<>> /\ Len(pipe) < Capacity
    /\ LET n == Smaller(Len(writing), Capacity - Len(pipe))
       IN  /\ pipe' = pipe \o SubSeq(writing, 1, n)
           /\ writing' = SubSeq(writing, n + 1, Len(writing))
    /\ UNCHANGED <<side, sent, handled, exited>>

\* What one read() returns.
Data == SubSeq(pipe, 1, Smaller(Len(pipe), Buffer))

\* ssc_input_read_char: without a '$' in the buffer the process exits.
ReadCommands ==
    /\ side = "commands" /\ ~exited /\ pipe # <<>>
    /\ pipe' = SubSeq(pipe, Len(Data) + 1, Len(pipe))
    /\ exited' = ~Contains(Data, Delimiter)
    /\ handled' = IF exited' THEN handled ELSE handled \o CommandTokens(Data)
    /\ UNCHANGED <<side, sent, writing>>

\* inputCallback
ReadReplies ==
    /\ side = "replies" /\ ~exited /\ pipe # <<>>
    /\ pipe' = SubSeq(pipe, Len(Data) + 1, Len(pipe))
    /\ handled' = handled \o ReplyTokens(Data)
    /\ UNCHANGED <<side, sent, writing, exited>>

Next == (\E m \in Messages : Send(m)) \/ Write \/ ReadCommands \/ ReadReplies

Spec == Init /\ [][Next]_vars

\* A blocked write() goes on when there is room, and both run loops come
\* back to a descriptor that is readable.
FairSpec == Spec /\ WF_vars(Write) /\ WF_vars(ReadCommands) /\ WF_vars(ReadReplies)
-----------------------------------------------------------------------------
(* Properties *)

Chunks == (UNION {Range(m) : m \in Messages}) \cup {Delimiter}

\* Everything in the pipes is made of the chunks of messages.
TypeOK ==
    /\ side \in Sides
    /\ sent \in Seq(Messages)
    /\ writing \in Seq(Chunks) /\ pipe \in Seq(Chunks)
    /\ Len(pipe) <= Capacity
    /\ handled \in Seq(Seq(Chunks))
    /\ exited \in BOOLEAN

\* Reading the command pipe never ends the process ("Couldn't find delimiter
\* char in the PIPE input"), however many commands one read returns.
ReaderSurvives == ~exited

TheChannel == INSTANCE Channel

\* However many messages a read returns, the pipe is a channel as long as the
\* backlog fits the pipe and the buffer: messages are handled once, whole and in
\* order (pipeToSofia to ssc_input_read_char, Send to inputCallback).
ImplementsChannel == TheChannel!Spec

\* Every message that is sent is handled.
SentIsHandled == \A n \in 1..MaxSent : (Len(sent) >= n) ~> (Len(handled) >= n)

\* "there might be more than one commands in buf, but each command ends in
\* '$'": what is handled is what was sent.
HandledAsSent == IsPrefix(handled, sent)
=============================================================================
