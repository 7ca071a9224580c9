------------------------------ MODULE Statements ------------------------------
(***************************************************************************)
(* What the clients are shown: the terminal with its batches               *)
(* (cli/language.py) and a typed client behind the MCP adapter             *)
(* (mcp/adapter.py, operations/frontend.py) on one session.  Each          *)
(* statement or typed request is one transaction of the recorder, taken    *)
(* here as a whole: it is adopted, recorded as failed, or raises           *)
(* (Recorder has its steps).                                               *)
(*                                                                         *)
(* A statement is the sequence of its calls, arguments first.  A call      *)
(*   "read", "change"  answers, and changes the session or not             *)
(*   "partial"         answers with the result of an interrupted solve     *)
(*   "refused"         answers with an error                               *)
(*   "raises", "key"   raises an exception, a KeyboardInterrupt            *)
(*   "unreadable"      stands for a batch that does not parse              *)
(*   "exit", "detach", "shutdown"  ask to leave                            *)
(***************************************************************************)
EXTENDS Integers, Sequences, FiniteSets, SequencesExt

CONSTANTS
    None,
    Batches,        \* submissions: sequences of statements
    Typed,          \* operations of typed requests
    MaxCommands

VARIABLES
    service,        \* adopted state: content, a sequence of commands; open experiment; flags
    terminal,       \* the statements left, and whether the terminal closed
    frame,          \* the statement being executed
    adapter,        \* path: attached or not; seen: the revision last read
    shown,          \* the responses shown, in order
    issued
svars == <<service, terminal, frame, adapter, shown, issued>>

Init ==
    /\ service \in [content : {<<>>}, store : BOOLEAN, durable : BOOLEAN, left : {{}}]
    /\ service.durable => service.store
    /\ terminal = [batch |-> <<>>, closed |-> FALSE, number |-> 0]
    /\ frame = None
    /\ adapter = [path |-> None, seen |-> None]
    /\ shown = <<>> /\ issued = 0

Revision == Len(service.content)
Row(client, cmd, number, op, ok, before, after) ==
    [client |-> client, cmd |-> cmd, batch |-> number, op |-> op, ok |-> ok, before |-> before, after |-> after]

---------------------------------------------------------------------------
(* The terminal: submit *)

\* A coordinator serves one client after the other.
Submit(batch) ==
    /\ frame = None /\ terminal.batch = <<>> /\ issued < MaxCommands
    /\ terminal.closed => service.durable
    /\ "shutdown" \in service.left => ~service.durable
    /\ terminal' = [batch |-> batch, closed |-> FALSE, number |-> terminal.number + 1]
    /\ service' = [service EXCEPT !.left = @ \ {"detach"}]
    /\ UNCHANGED <<frame, adapter, shown, issued>>

Leaving == {"exit", "detach", "shutdown"}
Nested(statement) == \E i \in 1..(Len(statement) - 1) : statement[i] = "exit"

Statement(calls) ==
    [cmd |-> issued + 1, todo |-> IF Nested(calls) THEN <<"raises">> ELSE calls, before |-> Revision,
     content |-> service.content, store |-> service.store, left |-> {}, buffer |-> <<>>, code |-> 0,
     closing |-> FALSE]

Begin ==
    /\ frame = None /\ terminal.batch # <<>> /\ issued < MaxCommands
    /\ frame' = Statement(Head(terminal.batch)) /\ issued' = issued + 1
    /\ UNCHANGED <<service, terminal, adapter, shown>>

Answered(op, ok) == [op |-> op, ok |-> ok]
Answers(f, op) == [f EXCEPT !.buffer = Append(@, Answered(op, TRUE))]
Halts(f, op, ok, code) == [f EXCEPT !.buffer = Append(@, Answered(op, ok)), !.todo = <<>>, !.code = code]
Changed(f) == [f EXCEPT !.content = Append(@, f.cmd)]

\* _exit: a coordinator keeps the experiment, a session of its own closes it.
Exits(f) ==
    LET closing == [f EXCEPT !.closing = TRUE, !.store = service.durable,
                             !.left = IF service.durable THEN @ ELSE @ \cup {"shutdown"}] IN
    IF service.durable \/ ~f.store THEN Answers(closing, "exit") ELSE Answers(Answers(closing, "close"), "exit")

Called(f, op) ==
    CASE op = "read" -> Answers(f, op)
      [] op = "change" -> Answers(Changed(f), op)
      [] op = "partial" -> Halts(Changed(f), op, TRUE, 130)
      [] op \in {"refused", "raises", "unreadable"} -> Halts(f, op, FALSE, 2)
      [] op = "key" -> Halts(f, op, FALSE, 130)
      [] op = "exit" -> Exits(f)
      [] op = "detach" /\ ~service.durable -> Halts(f, op, FALSE, 2)
      [] OTHER -> Answers([f EXCEPT !.left = @ \cup {op}], op)

Call ==
    /\ frame # None /\ frame.todo # <<>>
    /\ frame' = Called([frame EXCEPT !.todo = Tail(@)], Head(frame.todo))
    /\ UNCHANGED <<service, terminal, adapter, shown, issued>>

\* Of a statement that failed only its last error is shown.
Shown(f, code) ==
    IF code = 0 THEN f.buffer
    ELSE LET errors == SelectSeq(f.buffer, LAMBDA a : ~a.ok) IN
         IF errors = <<>> THEN <<>> ELSE <<errors[Len(errors)]>>

Rows(f, answers, after) ==
    [i \in DOMAIN answers |->
        Row("terminal", f.cmd, terminal.number, answers[i].op, answers[i].ok, f.before, after)]

Conclude(f, answers, code, adopted) ==
    /\ service' = adopted
    /\ shown' = shown \o Rows(f, answers, Len(adopted.content))
    /\ terminal' = LET leaves == adopted.durable /\ adopted.left # {} IN
                   [terminal EXCEPT !.batch = IF code # 0 \/ f.closing \/ leaves THEN <<>> ELSE Tail(@),
                                    !.closed = code = 0 /\ (f.closing \/ leaves)]
    /\ frame' = None
    /\ UNCHANGED <<adapter, issued>>

Adopted(f) == [service EXCEPT !.content = f.content, !.store = f.store, !.left = @ \cup f.left]

\* The transaction is adopted, or recorded as failed.
Recorded ==
    /\ frame # None /\ frame.todo = <<>>
    /\ Conclude(frame, Shown(frame, frame.code), frame.code, IF frame.code = 0 THEN Adopted(frame) ELSE service)

\* The recorder raises: the intent or the outcome does not fit, or Ctrl-C comes
\* between the calls; one error stands for the statement.
RecorderRaises ==
    /\ frame # None
    /\ \E code \in {2, 130} :
          Conclude([frame EXCEPT !.closing = FALSE], <<Answered("history", FALSE)>>, code, service)

\* End of input: the experiment is closed in a transaction of its own, whatever
\* becomes of its record.
Finish ==
    /\ frame = None /\ terminal.batch = <<>> /\ ~service.durable /\ service.store
    /\ service' = [service EXCEPT !.store = FALSE, !.left = @ \cup {"shutdown"}]
    /\ terminal' = [terminal EXCEPT !.closed = TRUE]
    /\ UNCHANGED <<frame, adapter, shown, issued>>

---------------------------------------------------------------------------
(* The typed client: requests of a coordinator between the submissions *)

Serving == service.durable /\ "shutdown" \notin service.left /\ frame = None /\ terminal.batch = <<>>

\* dispatch: a request that names a revision is refused against another; the
\* response is replaced when its record fails.  The reply may be lost.
Dispatched(op, expected, recorded) ==
    LET good == recorded /\ op \notin {"refused", "raises"} /\ expected \in {None, Revision}
        content == IF good /\ op = "change" THEN Append(service.content, issued + 1) ELSE service.content IN
    [ok |-> good, service |-> [service EXCEPT !.content = content,
                                              !.left = (@ \ {"detach"}) \cup (IF good THEN {op} \cap {"detach", "shutdown"} ELSE {})]]

Request(op, expected, Received(_)) ==
    /\ Serving /\ issued < MaxCommands
    /\ issued' = issued + 1
    /\ \E recorded \in BOOLEAN, delivered \in BOOLEAN :
          LET reply == Dispatched(op, expected, recorded) row ==
                Row("typed", issued + 1, 0, op, reply.ok, Revision, Len(reply.service.content)) IN
          /\ service' = reply.service
          /\ IF delivered THEN adapter' = Received(reply) /\ shown' = Append(shown, row)
             ELSE UNCHANGED <<adapter, shown>>
    /\ terminal' = [terminal EXCEPT !.closed = FALSE]
    /\ UNCHANGED frame

Seen(path, reply) == [path |-> path, seen |-> Len(reply.service.content)]

\* One adapter attaches once; only a reply it received changes that.
Attach ==
    /\ adapter.path = None
    /\ Request("attach", None, LAMBDA reply : Seen(IF reply.ok THEN "attached" ELSE None, reply))

Execute(op) ==
    /\ adapter.path # None
    /\ \E expected \in {None, adapter.seen} :
          Request(op, expected, LAMBDA reply :
              Seen(IF reply.ok /\ op \in {"shutdown", "detach"} THEN None ELSE adapter.path, reply))

Detach ==
    /\ adapter.path # None
    /\ Request("leave", None, LAMBDA reply : Seen(IF reply.ok THEN None ELSE adapter.path, reply))

\* close gives the path up even when the coordinator does not answer.
Close ==
    /\ adapter.path # None /\ ~Serving
    /\ adapter' = [adapter EXCEPT !.path = None]
    /\ UNCHANGED <<service, terminal, frame, shown, issued>>

Next ==
    \/ \E batch \in Batches : Submit(batch)
    \/ Begin \/ Call \/ Recorded \/ RecorderRaises \/ Finish
    \/ Attach \/ Detach \/ Close \/ \E op \in Typed : Execute(op)

Spec == Init /\ [][Next]_svars

---------------------------------------------------------------------------
Upto(cmd) == Cardinality({i \in DOMAIN service.content : service.content[i] <= cmd})
Changes(cmd) == Cardinality({i \in DOMAIN service.content : service.content[i] = cmd})

=============================================================================
